---- MODULE Spec2Model ----
(***************************************************************************)
(* Distributed web crawling and indexing system: the master node (frontier *)
(* coordinator), the crawler nodes and the indexer node, which cooperate   *)
(* through SQS FIFO queues.                                                *)
(*                                                                         *)
(* The processes share nothing but the queues, so each is checked against  *)
(* the queues it reads and writes:                                         *)
(*   SpecCrawl   master seeding + crawler workers + the task queue         *)
(*   SpecCrawlFaults  the same with queue calls that raise and malformed   *)
(*               messages on the task queue                                *)
(*   SpecIndex   the indexer against the documents crawlers send           *)
(*   SpecMaster  the master's result loop against the results workers send *)
(*   SpecWorkers master seeding + a crawler worker + the indexer, each     *)
(*               with its own idle counter                                 *)
(*   SpecApi     the indexer against documents and API requests            *)
(*   SpecPatterns, SpecKeywords  prepare_restricted_patterns and           *)
(*               extract_keywords, each called on its own                  *)
(***************************************************************************)
EXTENDS Integers, Sequences, FiniteSets, TLC

VARIABLES
    \* queue transport (SQS FIFO)
    queue,            \* queue name -> sequence of [body, dedup_id]
    dedup,            \* queue name -> deduplication ids inside the 5 minute
                      \* window, oldest first
    expired,          \* number of deduplication ids that left the window so far
    task_log,         \* history: every message the task queue accepted, in order
    \* operator input to master_process
    seed_urls, depth_limit, restricted_urls,
    arg, ret,         \* a function of the program called on its own: what it
                      \* is given, and what it returned
    \* master_node.py
    master_pc, seed_i, visited_urls, idle_counter, crawler_results,
    crawler_stats, indexer_stats,
    master_sent,      \* history: every sqs.send_message call of the master, in order
    empty_rounds,     \* history: consecutive most recent rounds with no result
    declared,         \* history: number of times the master declared the run over
    poll_raised,      \* history: whether the most recent receive_message raised
    poll_faults,      \* number of receive_message calls that raised so far
    elapsed,          \* history: seconds the master spent in its long polls and
                      \* sleeps since it last received a result
    \* crawler_node.py
    crawler,          \* worker -> [pc, task, idle_counter]
    fetched,          \* history: the tasks handed to fetch_page, in order
    last_expand,      \* history: the last successful expansion
    emit_log,         \* history: per task handled, the send calls the worker
                      \* made: the child tasks, then the calls made after them
    crawler_polls,    \* history: worker -> its most recent consecutive
                      \* receive_task calls that gave it no task
    domain_age,       \* history: domain -> seconds the workers slept since the
                      \* last fetch from it, up to POLITENESS_DELAY
    min_gap,          \* history: the least such time between two fetches from
                      \* one domain
    \* indexer_node.py
    idx_pc, idx_task, idx_idle, retry_count, indexed_count, failed_count,
    whoosh, db,       \* the full-text index and the indexed_documents table
    idx_outcomes,     \* history: write outcomes of the document in hand
    idx_waits,        \* history: time.sleep calls of index_document for it
    idx_log,          \* history: the documents the indexer finished, in order
    faults,           \* number of index writes that failed so far
    send_faults,      \* number of send_result calls that raised so far
    idx_polls,        \* history: the indexer's most recent consecutive
                      \* receive_task calls that gave it no task
    search_statistics,\* the search_statistics table: search term -> search_count
    api_log,          \* history: the API requests the indexer handled, in order
    docs_sent, results_sent,
    poisoned,         \* number of malformed messages put on a queue so far
    poison_log        \* history: the malformed messages the consumers received

transport_vars == <<queue, dedup, expired, task_log>>
input_vars     == <<seed_urls, depth_limit, restricted_urls, arg, ret>>
master_vars    == <<master_pc, seed_i, visited_urls, idle_counter, crawler_results,
                    crawler_stats, indexer_stats, master_sent, empty_rounds, declared,
                    poll_raised, poll_faults, elapsed>>
crawler_vars   == <<crawler, fetched, last_expand, emit_log, crawler_polls,
                    domain_age, min_gap>>
indexer_vars   == <<idx_pc, idx_task, idx_idle, retry_count, indexed_count,
                    failed_count, whoosh, db, idx_outcomes, idx_waits, idx_log,
                    faults, send_faults, idx_polls, search_statistics, api_log>>
env_vars       == <<docs_sent, results_sent, poisoned, poison_log>>
vars == <<transport_vars, input_vars, master_vars, crawler_vars, indexer_vars, env_vars>>

----------------------------------------------------------------------------
(* Bounds of the model *)
MaxDepth   == 2     \* largest depth limit the operator gives
MaxExpire  == 1     \* deduplication ids that may leave the window in a run
MaxDocs    == 2     \* documents the crawl workers send to the indexer
MaxFaults  == 4     \* index writes that fail in a run
MaxSendFaults == 1  \* send_result calls that raise in a run, with the
                    \* malformed messages of the run
MaxResults == 2     \* results that reach the master's result queues in a run
MaxWords   == 3     \* words in a text given to extract_keywords
MaxKeywords == 2    \* the largest max_keywords extract_keywords is given
MaxRequests == 2    \* API requests put on the indexing queue
MaxPoison  == 1     \* malformed messages put on a queue, and receive_message
                    \* calls of the master that raise, in a run

----------------------------------------------------------------------------
(* URLs, as urlparse sees them *)
Url(s, n, p, q, f) == [scheme |-> s, netloc |-> n, path |-> p, query |-> q, fragment |-> f]

UrlA     == Url("http", "example.com", "/a", "", "")
UrlAfrag == Url("http", "example.com", "/a", "", "frag")
UrlB     == Url("http", "example.com", "/b", "", "")
UrlBq    == Url("http", "example.com", "/b", "page=2", "")
UrlC     == Url("http", "other.com", "/c", "", "")
UrlD     == Url("http", "example.com", "/d", "", "")
UrlMail  == Url("mailto", "", "bot@example.com", "", "")

\* the seed lists an operator gives: one seed, the same URL with and without a
\* fragment, the same URL twice, two sites
SeedLists == { <<UrlA>>, <<UrlA, UrlAfrag>>, <<UrlA, UrlA>>, <<UrlC, UrlA>> }

\* the web the crawl runs on: the <a href> targets of the page a URL serves
\* (the fragment of a URL is never sent to the server); /d is two links away
\* from /a
Web(url) ==
    CASE url.netloc = "example.com" /\ url.path = "/a" -> {UrlB, UrlC, UrlAfrag}
      [] url.netloc = "example.com" /\ url.path = "/b" -> {UrlA, UrlAfrag, UrlBq, UrlMail, UrlD}
      [] OTHER -> {UrlC, UrlB}

\* urlparse(url).netloc
get_domain(url) == url.netloc

\* hashlib.md5(url.encode('utf-8')).hexdigest(): 32 hex digits
hash_url(url) == <<"md5", url>>

\* hashlib.sha256(url.encode()).hexdigest(): 64 hex digits, never equal to an md5 digest
generate_url_hash(url) == <<"sha256", url>>

\* parsed._replace(fragment='', query='').geturl()
Normalize(url) == [url EXCEPT !.query = "", !.fragment = ""]

\* line 44 left out: the links are kept as the page wrote them
extract_urls_Raw(links) == { l \in links : l.scheme \in {"http", "https"} }

\* extract_urls: the set of normalized http/https links of a page
extract_urls(links) ==
    { Normalize(h) : h \in { l \in links : l.scheme \in {"http", "https"} } }

----------------------------------------------------------------------------
(* Queue transport: SQS FIFO queues with one message group each *)
QueueNames == {"crawler", "indexer", "crawler_result", "indexer_result", "result"}

\* master_node.py line 25: the queue receive_indexer_results polls
indexer_result_queue_url == "indexer_result"

\* indexer_node.py line 25: the queue send_result writes to
result_queue_url == "result"

Transport == [queue |-> queue, dedup |-> dedup, log |-> task_log]

\* sqs.send_message(QueueUrl=q, MessageBody=body, MessageDeduplicationId=id):
\* a message whose id is inside the deduplication window is accepted and dropped
SqsSend(T, q, body, id) ==
    IF \E i \in 1..Len(T.dedup[q]) : T.dedup[q][i] = id
    THEN T
    ELSE LET msg == [body |-> body, dedup_id |-> id]
         IN  [queue |-> [T.queue EXCEPT ![q] = Append(@, msg)],
              dedup |-> [T.dedup EXCEPT ![q] = Append(@, id)],
              log   |-> IF q = "crawler" THEN Append(T.log, msg) ELSE T.log]

\* sqs.delete_message of the message at the head of the group
SqsDelete(T, q) == [T EXCEPT !.queue[q] = Tail(@)]

SetTransport(T) == /\ queue' = T.queue
                   /\ dedup' = T.dedup
                   /\ task_log' = T.log

\* the deduplication interval of an id ends, five minutes after it was sent:
\* the oldest id of the window leaves it
DedupExpire(q) ==
    /\ expired < MaxExpire
    /\ dedup[q] # << >>
    /\ dedup' = [dedup EXCEPT ![q] = Tail(@)]
    /\ expired' = expired + 1
    /\ UNCHANGED <<queue, task_log>>
    /\ UNCHANGED <<input_vars, master_vars, crawler_vars, indexer_vars, env_vars>>

----------------------------------------------------------------------------
(* Python dicts: d.get(k, default) and "k in d" *)
Get(d, k, default) == IF k \in DOMAIN d THEN d[k] ELSE default

NoTask == [none |-> TRUE]

\* json.loads(message['Body']) returns
ParsesAsJson(body) == "invalid_json" \notin DOMAIN body

\* task_data['url'] is there
HasUrl(body) == ParsesAsJson(body) /\ "url" \in DOMAIN body

\* more malformed messages a consumer received: whether it deleted them, and
\* whether it had received the very message before
PoisonedAll(consumer, bodies, deleted) ==
    poison_log \cup
      { [consumer |-> consumer, body |-> b, deleted |-> deleted,
         again |-> \E e \in poison_log : e.consumer = consumer /\ e.body = b] :
        b \in bodies }

Poisoned(consumer, body, deleted) == PoisonedAll(consumer, {body}, deleted)

----------------------------------------------------------------------------
(* master_node.py *)

\* what --restricted takes: a bare domain, or a literal URL
RestrictedUniverse == { [kind |-> "domain", text |-> "other.com"],
                        [kind |-> "url", url |-> UrlB] }

\* prepare_restricted_patterns: a bare domain becomes https?://<domain>.* ,
\* anything else its own text with regex metacharacters escaped
prepare_restricted_patterns(entries) ==
    { IF e.kind = "domain"
      THEN [re |-> "https?://<text>.*", text |-> e.text]
      ELSE [re |-> "<escaped literal>", url |-> e.url] : e \in entries }

\* host names of the model one of which is a proper string prefix of the other
ProperPrefixes == {}

\* the URLs a compiled pattern matches at their start (re.match)
PatternMatches(p, url) ==
    IF p.re = "https?://<text>.*"
    THEN /\ url.scheme \in {"http", "https"}
         /\ (p.text = url.netloc \/ <<p.text, url.netloc>> \in ProperPrefixes)
    ELSE /\ p.url.scheme = url.scheme
         /\ p.url.netloc = url.netloc
         /\ p.url.path = url.path
         /\ p.url.query \in {"", url.query}
         /\ p.url.fragment \in {"", url.fragment}
         /\ (p.url.query = "" /\ p.url.fragment # "" => url.query = "")

Restricted(patterns, url) == \E p \in patterns : PatternMatches(p, url)

----------------------------------------------------------------------------
(* prepare_restricted_patterns on the text of its entries. A text is a
   sequence of pieces, each standing for the characters it spells: the
   pieces of a host name, of a scheme, and the single characters . / : *   *)

\* an element of a compiled pattern: a literal piece (re.escape of it), an
\* optional literal (s?) and the wildcard .*
Lit(piece) == [re |-> "literal", piece |-> piece]
Opt(piece) == [re |-> "optional", piece |-> piece]
AnyText    == [re |-> ".*"]

\* the pieces whose spelling starts with the characters http
SpelledHttp == {"http", "httpbin"}

\* url.startswith('http'), line 137
StartsWithHttp(text) == text # << >> /\ Head(text) \in SpelledHttp

Has(text, piece) == \E i \in 1..Len(text) : text[i] = piece

\* the body of the loop of prepare_restricted_patterns, lines 130-147: the
\* pattern one entry is compiled to
compile_pattern(entry) ==
    IF ~StartsWithHttp(entry) /\ ~Has(entry, "/") /\ ~Has(entry, "*")
    THEN <<Lit("http"), Opt("s"), Lit(":"), Lit("/"), Lit("/")>>
         \o [i \in 1..Len(entry) |-> Lit(entry[i])] \o <<AnyText>>
    ELSE [i \in 1..Len(entry) |-> IF entry[i] = "*" THEN AnyText ELSE Lit(entry[i])]

\* re.match(pattern, text): the pattern matches at the start of the text
RECURSIVE re_match(_, _)
re_match(pattern, text) ==
    IF pattern = << >> THEN TRUE
    ELSE LET e == Head(pattern)
             rest == Tail(pattern)
         IN  CASE e.re = "literal" ->
                    text # << >> /\ Head(text) = e.piece /\ re_match(rest, Tail(text))
               [] e.re = "optional" ->
                    \/ text # << >> /\ Head(text) = e.piece /\ re_match(rest, Tail(text))
                    \/ re_match(rest, text)
               [] OTHER ->
                    \E k \in 0..Len(text) : re_match(rest, SubSeq(text, k + 1, Len(text)))

\* urlunparse: the text of a URL with this scheme, host and path
UrlText(u) == u.scheme \o <<":", "/", "/">> \o u.host \o u.path

\* the host names, schemes and paths of the URLs patterns are tried on
Hosts == { <<"other", ".", "com">>, <<"other", ".", "com", ".", "evil">>,
           <<"other", "x", "com">>, <<"httpbin", ".", "com">>, <<"evil", ".", "com">> }
Schemes == { <<"http">>, <<"http", "s">>, <<"ftp">> }
Paths == { << >>, <<"/">>, <<"/", "x">> }
TriedUrls == [scheme : Schemes, host : Hosts, path : Paths]

\* what --restricted is given: bare domains, literal URLs, entries with *
Entries ==
    Hosts \cup
    { <<"http", ":", "/", "/", "other", ".", "com", "/", "*">>,
      <<"http", ":", "/", "/", "other", ".", "com", "/", "x">>,
      <<"*", ".", "com", "/", "*">>,
      <<"other", ".", "com", "/", "*">> }

\* prepare_restricted_patterns([entry]) is called, and the pattern tried on a URL
CompilePattern ==
    /\ arg # NoTask /\ arg.fn = "prepare_restricted_patterns"
    /\ ret = NoTask
    /\ ret' = [pattern |-> compile_pattern(arg.entry),
               matches |-> re_match(compile_pattern(arg.entry), UrlText(arg.url))]
    /\ UNCHANGED <<seed_urls, depth_limit, restricted_urls, arg>>
    /\ UNCHANGED <<transport_vars, master_vars, crawler_vars, indexer_vars, env_vars>>

\* the message body send_task_to_queue builds
SeedTask(url, limit, patterns) ==
    [url |-> url, depth |-> 0, seed_domain |-> get_domain(url),
     depth_limit |-> limit, restricted_patterns |-> patterns]

\* the deduplication id send_task_to_queue gives a seed task
SeedDedupId(url) == hash_url(url)

\* lines 48-50 left out: every seed is sent
AlreadyVisited_Never(url_hash, visited) == FALSE

\* the test of send_task_to_queue, line 48
AlreadyVisited(url_hash, visited) == url_hash \in visited

\* line 54 as an assignment: only the last hash is kept
MarkVisited_Replace(visited, url_hash) == {url_hash}

\* visited_urls.add(url_hash), line 54
MarkVisited(visited, url_hash) == visited \cup {url_hash}

\* send_task_to_queue(url, depth_limit, restricted_patterns); sent_ok is FALSE
\* when sqs.send_message raises ClientError, which is logged and swallowed
send_task_to_queue(url, sent_ok) ==
    LET url_hash == SeedDedupId(url)
        body == SeedTask(url, depth_limit, prepare_restricted_patterns(restricted_urls))
    IN  IF AlreadyVisited(url_hash, visited_urls)
        THEN UNCHANGED <<visited_urls, queue, dedup, task_log, master_sent>>
        ELSE /\ visited_urls' = MarkVisited(visited_urls, url_hash)
             /\ master_sent' = Append(master_sent,
                    [queue |-> "crawler", body |-> body, dedup_id |-> url_hash,
                     phase |-> master_pc, raised |-> ~sent_ok])
             /\ IF sent_ok
                THEN SetTransport(SqsSend(Transport, "crawler", body, url_hash))
                ELSE UNCHANGED <<queue, dedup, task_log>>

\* master_process, lines 165-167: one iteration of the seeding loop
MasterSeed ==
    /\ master_pc = "seed"
    /\ seed_i <= Len(seed_urls)
    /\ \E sent_ok \in BOOLEAN : send_task_to_queue(seed_urls[seed_i], sent_ok)
    /\ seed_i' = seed_i + 1
    /\ UNCHANGED <<master_pc, idle_counter, crawler_results, crawler_stats,
                   indexer_stats, empty_rounds, declared, poll_raised, poll_faults,
                   elapsed>>
    /\ UNCHANGED <<expired, input_vars, crawler_vars, indexer_vars, env_vars>>

\* master_process, lines 169-182: the seeding loop is over, the result loop starts
MasterStartLoop ==
    /\ master_pc = "seed"
    /\ seed_i > Len(seed_urls)
    /\ master_pc' = "poll_crawler"
    /\ UNCHANGED <<seed_i, visited_urls, idle_counter, crawler_results, crawler_stats,
                   indexer_stats, master_sent, empty_rounds, declared, poll_raised,
                   poll_faults, elapsed>>
    /\ UNCHANGED <<transport_vars, input_vars, crawler_vars, indexer_vars, env_vars>>

----------------------------------------------------------------------------
(* master_node.py: the result loop *)
MasterIdleLimit == 30
MaxNumberOfMessages == 10
MasterWaitTimeSeconds == 5
MasterSleep == 5
POLITENESS_DELAY == 5

Min(a, b) == IF a < b THEN a ELSE b

\* by_depth / by_domain: one more result under key k, lines 193-202 and 208-215
Tally(table, k, status) ==
    LET old == IF k \in DOMAIN table THEN table[k]
               ELSE [count |-> 0, success |-> 0, errors |-> 0]
        new == [count   |-> old.count + 1,
                success |-> old.success + (IF status = "success" THEN 1 ELSE 0),
                errors  |-> old.errors + (IF status \notin {"restricted", "success"} THEN 1 ELSE 0)]
    IN  [x \in DOMAIN table \cup {k} |-> IF x = k THEN new ELSE table[x]]

\* lines 211-214 left out: a result that is neither restricted nor a success
\* is counted in no status counter
CountCrawlerResult_NoErrors(stats, result) ==
    LET depth  == Get(result, "depth", 0)
        domain == Get(result, "seed_domain", "unknown")
        status == Get(result, "status", "none")
    IN  [urls_processed |-> stats.urls_processed + 1,
         restricted |-> stats.restricted + (IF status = "restricted" THEN 1 ELSE 0),
         success    |-> stats.success + (IF status = "success" THEN 1 ELSE 0),
         errors     |-> stats.errors,
         by_depth   |-> Tally(stats.by_depth, depth, status),
         by_domain  |-> Tally(stats.by_domain, domain, status)]

\* master_process, lines 190-215: one crawler result is counted
CountCrawlerResult(stats, result) ==
    LET depth  == Get(result, "depth", 0)
        domain == Get(result, "seed_domain", "unknown")
        status == Get(result, "status", "none")
    IN  [urls_processed |-> stats.urls_processed + 1,
         restricted |-> stats.restricted + (IF status = "restricted" THEN 1 ELSE 0),
         success    |-> stats.success + (IF status = "success" THEN 1 ELSE 0),
         errors     |-> stats.errors + (IF status \notin {"restricted", "success"} THEN 1 ELSE 0),
         by_depth   |-> Tally(stats.by_depth, depth, status),
         by_domain  |-> Tally(stats.by_domain, domain, status)]

RECURSIVE CountCrawlerResults(_, _)
CountCrawlerResults(stats, results) ==
    IF results = << >> THEN stats
    ELSE CountCrawlerResults(CountCrawlerResult(stats, Head(results)), Tail(results))

\* master_process, lines 226-229: one indexer result is counted
CountIndexerResult(stats, result) ==
    [pages_indexed |-> stats.pages_indexed + 1,
     keywords_indexed |-> stats.keywords_indexed + Get(result, "keywords_count", 0)]

RECURSIVE CountIndexerResults(_, _)
CountIndexerResults(stats, results) ==
    IF results = << >> THEN stats
    ELSE CountIndexerResults(CountIndexerResult(stats, Head(results)), Tail(results))

\* sqs.receive_message(QueueUrl=q, MaxNumberOfMessages=10, WaitTimeSeconds=5):
\* it raises ClientError, or returns the first n waiting messages of the group
Responses(q) ==
    (IF poisoned + poll_faults < MaxPoison THEN {[raised |-> TRUE, n |-> 0]} ELSE {}) \cup
    { [raised |-> FALSE, n |-> k] :
        k \in (IF queue[q] = << >> THEN {0}
               ELSE 1..Min(MaxNumberOfMessages, Len(queue[q]))) }

\* lines 82-84 without the except clause: the ClientError leaves the function
receive_results_Uncaught(q, resp) ==
    LET IsJson(m)  == ParsesAsJson(m.body)
        NotJson(m) == ~ParsesAsJson(m.body)
        got == SubSeq(queue[q], 1, resp.n)
        parsed == SelectSeq(got, IsJson)
    IN  [raised  |-> resp.raised,
         results |-> [i \in 1..Len(parsed) |-> parsed[i].body],
         left    |-> SelectSeq(got, NotJson) \o SubSeq(queue[q], resp.n + 1, Len(queue[q])),
         bad     |-> { got[i].body : i \in { j \in 1..Len(got) : NotJson(got[j]) } }]

\* receive_crawler_results / receive_indexer_results: a ClientError of
\* receive_message is logged and the empty list returned; each message
\* received is parsed, appended to the results and deleted, and one that
\* json.loads rejects is logged and left on the queue
receive_results(q, resp) ==
    LET IsJson(m)  == ParsesAsJson(m.body)
        NotJson(m) == ~ParsesAsJson(m.body)
        got == SubSeq(queue[q], 1, resp.n)
        parsed == SelectSeq(got, IsJson)
    IN  [raised  |-> FALSE,
         results |-> [i \in 1..Len(parsed) |-> parsed[i].body],
         left    |-> SelectSeq(got, NotJson) \o SubSeq(queue[q], resp.n + 1, Len(queue[q])),
         bad     |-> { got[i].body : i \in { j \in 1..Len(got) : NotJson(got[j]) } }]

\* the failed tasks are sent back to the task queue after a poll
AfterReceive_Requeue(T, q, left) ==
    SqsSend([T EXCEPT !.queue[q] = left], "crawler",
            SeedTask(UrlC, depth_limit, {}), <<"retry", Len(T.log)>>)

\* the time a receive_message call of the master takes at least: the long
\* poll of lines 78 and 105 waits WaitTimeSeconds when the queue has nothing
\* to return, and an error or a message ends the call at once
PollTime(resp) == IF resp.raised \/ resp.n > 0 THEN 0 ELSE MasterWaitTimeSeconds

\* the time the master is meant to take to shut down once results stop: 30
\* rounds at the 5 second interval of line 250
ShutdownBudget == MasterIdleLimit * MasterSleep

\* elapsed is kept up to the first value past the budget and a tolerance of one
\* interval
Longest == ShutdownBudget + 2 * MasterSleep

\* the time since the last result received, after one more poll
ElapsedAfterPoll(e, resp, results) ==
    IF results # << >> THEN 0 ELSE Min(Longest, e + PollTime(resp))

\* the queue after a poll
AfterReceive(T, q, left) == [T EXCEPT !.queue[q] = left]

\* master_process, lines 187-188
IdleAfterCrawlerPoll(idle, c_results) == IF c_results # << >> THEN 0 ELSE idle

\* lines 224-225 left out: indexer results do not reset the counter
IdleAfterIndexerPoll_NoReset(idle, c_results, i_results) ==
    IF c_results = << >> /\ i_results = << >> THEN idle + 1 ELSE idle

\* master_process, lines 224-225 and 239-241
IdleAfterIndexerPoll(idle, c_results, i_results) ==
    LET reset == IF i_results # << >> THEN 0 ELSE idle
    IN  IF c_results = << >> /\ i_results = << >> THEN reset + 1 ELSE reset

\* line 244 with a look at the task queue: no declaration while a task waits
ShouldExit_Drained(idle) == idle >= MasterIdleLimit /\ queue["crawler"] = << >>

\* the test of line 244 with ">": one round late
ShouldExit_Late(idle) == idle > MasterIdleLimit

\* the test of line 244
ShouldExit(idle) == idle >= MasterIdleLimit

\* master_process, lines 186-221: the crawler result queue is polled
MasterPollCrawler ==
    /\ master_pc = "poll_crawler"
    /\ \E resp \in Responses("crawler_result") :
         LET r == receive_results("crawler_result", resp)
         IN  /\ poll_raised' = resp.raised
             /\ poll_faults' = IF resp.raised THEN poll_faults + 1 ELSE poll_faults
             /\ IF r.raised
                THEN /\ master_pc' = "crashed"
                     /\ UNCHANGED <<crawler_results, idle_counter, crawler_stats,
                                    transport_vars, poison_log, elapsed>>
                ELSE /\ master_pc' = "poll_indexer"
                     /\ crawler_results' = r.results
                     /\ SetTransport(AfterReceive(Transport, "crawler_result", r.left))
                     /\ idle_counter' = IdleAfterCrawlerPoll(idle_counter, r.results)
                     /\ crawler_stats' = CountCrawlerResults(crawler_stats, r.results)
                     /\ elapsed' = ElapsedAfterPoll(elapsed, resp, r.results)
                     /\ poison_log' = PoisonedAll("master", r.bad, FALSE)
                     /\ UNCHANGED expired
    /\ UNCHANGED <<seed_i, visited_urls, indexer_stats, master_sent, empty_rounds, declared>>
    /\ UNCHANGED <<docs_sent, results_sent, poisoned>>
    /\ UNCHANGED <<input_vars, crawler_vars, indexer_vars>>

\* master_process, lines 223-250: the indexer result queue is polled, the round
\* ends and the master leaves the loop or sleeps
MasterPollIndexer ==
    /\ master_pc = "poll_indexer"
    /\ \E resp \in Responses(indexer_result_queue_url) :
         LET r == receive_results(indexer_result_queue_url, resp)
             idle == IdleAfterIndexerPoll(idle_counter, crawler_results, r.results)
         IN  /\ poll_raised' = resp.raised
             /\ poll_faults' = IF resp.raised THEN poll_faults + 1 ELSE poll_faults
             /\ IF r.raised
                THEN /\ master_pc' = "crashed"
                     /\ UNCHANGED <<indexer_stats, empty_rounds, idle_counter, declared,
                                    transport_vars, poison_log, elapsed>>
                ELSE /\ SetTransport(AfterReceive(Transport, indexer_result_queue_url, r.left))
                     /\ indexer_stats' = CountIndexerResults(indexer_stats, r.results)
                     /\ empty_rounds' = IF Len(crawler_results) + Len(r.results) = 0
                                        THEN empty_rounds + 1 ELSE 0
                     /\ idle_counter' = idle
                     /\ master_pc' = IF ShouldExit(idle) THEN "done" ELSE "poll_crawler"
                     /\ declared' = IF ShouldExit(idle) THEN declared + 1 ELSE declared
                     /\ elapsed' = Min(Longest,
                                        ElapsedAfterPoll(elapsed, resp, r.results)
                                        + (IF ShouldExit(idle) THEN 0 ELSE MasterSleep))
                     /\ poison_log' = PoisonedAll("master", r.bad, FALSE)
                     /\ UNCHANGED expired
    /\ UNCHANGED <<seed_i, visited_urls, crawler_results, crawler_stats, master_sent>>
    /\ UNCHANGED <<docs_sent, results_sent, poisoned>>
    /\ UNCHANGED <<input_vars, crawler_vars, indexer_vars>>

----------------------------------------------------------------------------
(* crawler_node.py *)
Crawlers == {"crawler1"}

CrawlerIdleLimit == 30
CrawlerIdleSleep == 10
DefaultDepthLimit == 3
CrawlerThrottle == 1

\* the domains of the pages, the keys of a per-domain table
Domains == { get_domain(u) : u \in {UrlA, UrlB, UrlC, UrlD} }

\* the workers slept for pause seconds: time.sleep of lines 138 and 194
Slept(ages, pause) ==
    [d \in Domains |-> Min(POLITENESS_DELAY, ages[d] + pause)]

\* fetch_page(url) is called, line 144
Fetching(ages, url) == [ages EXCEPT ![get_domain(url)] = 0]

\* the least time between two fetches from one domain, with this fetch
GapWith(gap, ages, url) == Min(gap, ages[get_domain(url)])

\* receive_task, lines 59-64: the fields the worker keeps of a task message
TaskOf(body) ==
    [url |-> body.url,
     depth |-> Get(body, "depth", 0),
     seed_domain |-> Get(body, "seed_domain", get_domain(body.url)),
     depth_limit |-> Get(body, "depth_limit", DefaultDepthLimit)]

\* crawler_process, lines 130/141 with receive_task: a task is received and deleted
CrawlerReceive(c) ==
    /\ crawler[c].pc = "receive"
    /\ queue["crawler"] # << >>
    /\ HasUrl(Head(queue["crawler"]).body)
    /\ crawler' = [crawler EXCEPT ![c] =
           [pc |-> "fetch", task |-> TaskOf(Head(queue["crawler"]).body),
            idle_counter |-> 0]]
    /\ SetTransport(SqsDelete(Transport, "crawler"))
    /\ crawler_polls' = [crawler_polls EXCEPT ![c] = 0]
    /\ UNCHANGED <<expired, fetched, last_expand, emit_log, domain_age, min_gap>>
    /\ UNCHANGED <<input_vars, master_vars, indexer_vars, env_vars>>

\* the test of line 135 with ">": the worker polls once more
NoTaskReceived_Late(c) ==
    LET n == crawler[c].idle_counter + 1
    IN  /\ crawler' = [crawler EXCEPT ![c] =
              [@ EXCEPT !.idle_counter = n,
                        !.pc = IF n > CrawlerIdleLimit THEN "exited" ELSE "receive"]]
        /\ crawler_polls' = [crawler_polls EXCEPT ![c] = @ + 1]
        /\ domain_age' = IF n > CrawlerIdleLimit THEN domain_age
                         ELSE Slept(domain_age, CrawlerIdleSleep)
        /\ UNCHANGED min_gap

\* crawler_process, lines 132-139: receive_task returned no url
NoTaskReceived(c) ==
    LET n == crawler[c].idle_counter + 1
    IN  /\ crawler' = [crawler EXCEPT ![c] =
              [@ EXCEPT !.idle_counter = n,
                        !.pc = IF n >= CrawlerIdleLimit THEN "exited" ELSE "receive"]]
        /\ crawler_polls' = [crawler_polls EXCEPT ![c] = @ + 1]
        /\ domain_age' = IF n >= CrawlerIdleLimit THEN domain_age
                         ELSE Slept(domain_age, CrawlerIdleSleep)
        /\ UNCHANGED min_gap

\* crawler_process, lines 132-139: the long poll returned no message
CrawlerIdle(c) ==
    /\ crawler[c].pc = "receive"
    /\ queue["crawler"] = << >>
    /\ NoTaskReceived(c)
    /\ UNCHANGED <<fetched, last_expand, emit_log>>
    /\ UNCHANGED <<transport_vars, input_vars, master_vars, indexer_vars, env_vars>>

\* receive_task, lines 58-71: json.loads or task_data['url'] raised; the
\* exception is logged, the message is not deleted and stays at the head of
\* its group, and the worker counts an idle poll
CrawlerMalformed(c) ==
    /\ crawler[c].pc = "receive"
    /\ queue["crawler"] # << >>
    /\ ~HasUrl(Head(queue["crawler"]).body)
    /\ NoTaskReceived(c)
    /\ poison_log' = Poisoned(c, Head(queue["crawler"]).body, FALSE)
    /\ UNCHANGED <<fetched, last_expand, emit_log>>
    /\ UNCHANGED <<docs_sent, results_sent, poisoned>>
    /\ UNCHANGED <<transport_vars, input_vars, master_vars, indexer_vars>>

\* line 82 written with the parent's depth in place of the child's
DepthAllows_OffByOne(next_depth, limit) == next_depth - 1 <= limit

\* the guard of send_urls_to_crawler_queue, line 82
DepthAllows(next_depth, limit) == next_depth <= limit

\* line 86 left out: every extracted link is followed
DomainAllows_Any(url, seed_domain) == TRUE

\* the guard of send_urls_to_crawler_queue, line 86
DomainAllows(url, seed_domain) == get_domain(url) = seed_domain

\* the message body of a child task, lines 90-95
ChildTask(url, next_depth, seed_domain, limit) ==
    [url |-> url, depth |-> next_depth, seed_domain |-> seed_domain,
     depth_limit |-> limit]

\* the deduplication id of a child task, lines 87 and 97
ChildDedupId(url) == generate_url_hash(url)

\* the child tasks send_urls_to_crawler_queue passes to sqs.send_message
ChildrenOf(urls, current_depth, seed_domain, limit) ==
    LET next_depth == current_depth + 1
    IN  IF DepthAllows(next_depth, limit)
        THEN { ChildTask(u, next_depth, seed_domain, limit) :
                 u \in { v \in urls : DomainAllows(v, seed_domain) } }
        ELSE {}

\* every order in which "for url in urls" may walk a list made from a set
Orders(S) ==
    { f \in [1..Cardinality(S) -> S] : \A i, j \in 1..Cardinality(S) : f[i] = f[j] => i = j }

RECURSIVE SendTasks(_, _)
SendTasks(T, tasks) ==
    IF tasks = << >>
    THEN T
    ELSE SendTasks(SqsSend(T, "crawler", Head(tasks), ChildDedupId(Head(tasks).url)),
                   Tail(tasks))

\* the crawl result of a failed fetch, lines 146-151
ErrorResult(task) ==
    [url |-> task.url, url_hash |-> generate_url_hash(task.url),
     status |-> "error", error |-> "Failed to fetch"]

\* the crawl result of a successful fetch, lines 181-191
SuccessResult(task, extracted) ==
    [url |-> task.url, url_hash |-> generate_url_hash(task.url),
     status |-> "success", extracted_urls_count |-> Cardinality(extracted),
     depth |-> task.depth, seed_domain |-> task.seed_domain]

\* the document a successful fetch sends to the indexer, lines 167-175
Document(task) ==
    [url |-> task.url, url_hash |-> generate_url_hash(task.url),
     depth |-> task.depth, seed_domain |-> task.seed_domain]

\* send_crawl_result(payload)
send_crawl_result(T, payload) == SqsSend(T, "crawler_result", payload, payload.url_hash)

\* send_to_indexer(document)
send_to_indexer(T, document) == SqsSend(T, "indexer", document, document.url_hash)

\* one sqs.send_message call of the crawl worker
Call(q, body, id) == [queue |-> q, body |-> body, dedup_id |-> id]

\* lines 146-152 with the task put back on the queue for another try
CallsFail_Requeue(task) ==
    << Call("crawler", task, ChildDedupId(task.url)),
       Call("crawler_result", ErrorResult(task), ErrorResult(task).url_hash) >>

\* crawler_process, lines 146-151: the send calls after a failed fetch
CallsFail(task) ==
    << Call("crawler_result", ErrorResult(task), ErrorResult(task).url_hash) >>

\* crawler_process, lines 163, 178 and 192: the send calls after a successful
\* fetch, in program order: the child tasks, the document, the crawl result
CallsOk(task, order, extracted) ==
    [i \in 1..Len(order) |-> Call("crawler", order[i], ChildDedupId(order[i].url))]
    \o << Call("indexer", Document(task), Document(task).url_hash),
          Call("crawler_result", SuccessResult(task, extracted),
               SuccessResult(task, extracted).url_hash) >>

\* the entry of the history for calls, the send calls the worker made for a
\* task; raised tells that the last of them raised
Emitted(task, fetch_ok, calls, raised) ==
    LET IsChild(x) == x.queue = "crawler"
        IsOther(x) == x.queue # "crawler"
    IN  [task |-> task, fetch_ok |-> fetch_ok, raised |-> raised,
         sends |-> Len(SelectSeq(calls, IsChild)),
         children |-> { calls[i].body : i \in { j \in 1..Len(calls) : IsChild(calls[j]) } },
         rest |-> SelectSeq(calls, IsOther)]

RECURSIVE ApplyCalls(_, _)
ApplyCalls(T, calls) ==
    IF calls = << >>
    THEN T
    ELSE ApplyCalls(SqsSend(T, Head(calls).queue, Head(calls).body, Head(calls).dedup_id),
                    Tail(calls))

\* crawler_process, lines 144-152: fetch_page returned None
CrawlerFetchFail(c) ==
    /\ crawler[c].pc = "fetch"
    /\ fetched' = Append(fetched, crawler[c].task)
    /\ SetTransport(ApplyCalls(Transport, CallsFail(crawler[c].task)))
    /\ emit_log' = Append(emit_log, Emitted(crawler[c].task, FALSE,
                                             CallsFail(crawler[c].task), FALSE))
    /\ crawler' = [crawler EXCEPT ![c] = [@ EXCEPT !.pc = "receive", !.task = NoTask]]
    /\ min_gap' = GapWith(min_gap, domain_age, crawler[c].task.url)
    /\ domain_age' = Fetching(domain_age, crawler[c].task.url)
    /\ UNCHANGED <<expired, last_expand, crawler_polls>>
    /\ UNCHANGED <<input_vars, master_vars, indexer_vars, env_vars>>

\* crawler_process, lines 144 and 154-194: the page was fetched; links are its hrefs
CrawlerFetchOk(c) ==
    /\ crawler[c].pc = "fetch"
    /\ LET links == Web(crawler[c].task.url)
       IN
         /\ LET task      == crawler[c].task
                extracted == extract_urls(links)
                children  == ChildrenOf(extracted, task.depth, task.seed_domain,
                                        task.depth_limit)
            IN  \E order \in Orders(children) :
                  LET T1 == SendTasks(Transport, order)
                      T2 == send_to_indexer(T1, Document(task))
                      T3 == send_crawl_result(T2, SuccessResult(task, extracted))
                  IN  /\ SetTransport(T3)
                      /\ emit_log' = Append(emit_log,
                            Emitted(task, TRUE, CallsOk(task, order, extracted), FALSE))
                      /\ last_expand' =
                            [parent |-> task, links |-> links, extracted |-> extracted,
                             sent |-> children,
                             result |-> SuccessResult(task, extracted),
                             enqueued |-> { T1.log[i].body :
                                              i \in (Len(task_log) + 1) .. Len(T1.log) }]
    /\ fetched' = Append(fetched, crawler[c].task)
    /\ crawler' = [crawler EXCEPT ![c] = [@ EXCEPT !.pc = "receive", !.task = NoTask]]
    /\ min_gap' = GapWith(min_gap, domain_age, crawler[c].task.url)
    /\ domain_age' = Slept(Fetching(domain_age, crawler[c].task.url), CrawlerThrottle)
    /\ UNCHANGED <<expired, crawler_polls>>
    /\ UNCHANGED <<input_vars, master_vars, indexer_vars, env_vars>>

\* crawler_process, lines 144-192: one of the sqs.send_message calls of the
\* task raises (the queue is unreachable or refuses the call). crawler_process
\* has no try block: the calls before it were made, the exception leaves the
\* loop and the worker process ends
CrawlerSendRaises(c) ==
    /\ crawler[c].pc = "fetch"
    /\ LET task      == crawler[c].task
           extracted == extract_urls(Web(task.url))
           children  == ChildrenOf(extracted, task.depth, task.seed_domain,
                                   task.depth_limit)
       IN  \E fetch_ok \in BOOLEAN, order \in Orders(children) :
             LET calls == IF fetch_ok THEN CallsOk(task, order, extracted)
                          ELSE CallsFail(task)
             IN  \E k \in 1..Len(calls) :
                   /\ SetTransport(ApplyCalls(Transport, SubSeq(calls, 1, k - 1)))
                   /\ emit_log' = Append(emit_log,
                         Emitted(task, fetch_ok, SubSeq(calls, 1, k), TRUE))
    /\ fetched' = Append(fetched, crawler[c].task)
    /\ crawler' = [crawler EXCEPT ![c] = [@ EXCEPT !.pc = "crashed", !.task = NoTask]]
    /\ min_gap' = GapWith(min_gap, domain_age, crawler[c].task.url)
    /\ domain_age' = Fetching(domain_age, crawler[c].task.url)
    /\ UNCHANGED <<expired, last_expand, crawler_polls>>
    /\ UNCHANGED <<input_vars, master_vars, indexer_vars, env_vars>>

----------------------------------------------------------------------------
(* indexer_node.py *)
MAX_IDLE_COUNT == 30
BACKOFF_TIME   == 10
MAX_RETRIES    == 3

RECURSIVE Pow2(_)
Pow2(n) == IF n = 0 THEN 1 ELSE 2 * Pow2(n - 1)

----------------------------------------------------------------------------
(* extract_keywords on plain text. A word is the sequence of its characters;
   the text is given as the words text.split() yields after lower-casing *)

\* the entries of stop_words, lines 217-222, that a word of the model can spell
stop_words == { <<"t", "h", "e">>, <<"b", "e">>, <<"i", "s">>, <<"a", "n", "d">> }

\* word.endswith(suffix)
EndsWith(word, suffix) ==
    /\ Len(word) >= Len(suffix)
    /\ SubSeq(word, Len(word) - Len(suffix) + 1, Len(word)) = suffix

\* word[:-n]
DropLast(word, n) == SubSeq(word, 1, Len(word) - n)

\* the basic stemming of lines 229-234
Stem(word) ==
    IF EndsWith(word, <<"i", "n", "g">>) THEN DropLast(word, 3)
    ELSE IF EndsWith(word, <<"s">>) /\ ~EndsWith(word, <<"s", "s">>) THEN DropLast(word, 1)
    ELSE IF EndsWith(word, <<"e", "d">>) THEN DropLast(word, 2)
    ELSE word

\* line 227
Kept(word) == word \notin stop_words /\ Len(word) > 2

\* lines 225-235: the words kept, stemmed, in the order of the text
RECURSIVE FilteredWords(_)
FilteredWords(text) ==
    IF text = << >> THEN << >>
    ELSE (IF Kept(Head(text)) THEN <<Stem(Head(text))>> ELSE << >>)
         \o FilteredWords(Tail(text))

\* word_freq[word], lines 238-240
Freq(words, w) == Cardinality({ i \in 1..Len(words) : words[i] = w })

\* the keys of word_freq in the order they were inserted: first occurrence
RECURSIVE Keys(_, _)
Keys(words, seen) ==
    IF words = << >> THEN << >>
    ELSE IF Head(words) \in seen THEN Keys(Tail(words), seen)
    ELSE <<Head(words)>> \o Keys(Tail(words), seen \cup {Head(words)})

\* sorted(items, key=frequency, reverse=True), line 243: a stable sort, items
\* of equal frequency keep the order they had
RECURSIVE SortedByFreq(_, _)
SortedByFreq(keys, words) ==
    IF keys = << >> THEN << >>
    ELSE LET best == CHOOSE i \in 1..Len(keys) :
                       /\ \A j \in 1..Len(keys) : Freq(words, keys[j]) <= Freq(words, keys[i])
                       /\ \A j \in 1..(i - 1) : Freq(words, keys[j]) < Freq(words, keys[i])
             others == [j \in 1..(Len(keys) - 1) |-> IF j < best THEN keys[j] ELSE keys[j + 1]]
         IN  <<keys[best]>> \o SortedByFreq(others, words)

\* extract_keywords(content, max_keywords), lines 186-246, for plain text
extract_keywords(text, max_keywords) ==
    LET words == FilteredWords(text)
        sorted_words == SortedByFreq(Keys(words, {}), words)
    IN  SubSeq(sorted_words, 1, Min(max_keywords, Len(sorted_words)))

\* the words of the texts
Vocabulary ==
    { <<"t", "h", "e">>, <<"c", "a", "t">>, <<"c", "a", "t", "s">>,
      <<"b", "e", "i", "n", "g">>, <<"u", "s", "e", "d">>, <<"g", "o">>,
      <<"c", "l", "a", "s", "s">>, <<"d", "o", "g">> }

RECURSIVE Texts(_)
Texts(n) ==
    IF n = 0 THEN { << >> }
    ELSE Texts(n - 1) \cup
         { Append(t, w) : t \in { x \in Texts(n - 1) : Len(x) = n - 1 }, w \in Vocabulary }

\* extract_keywords is called
ExtractKeywords ==
    /\ arg # NoTask /\ arg.fn = "extract_keywords"
    /\ ret = NoTask
    /\ ret' = [keywords |-> extract_keywords(arg.text, arg.max_keywords)]
    /\ UNCHANGED <<seed_urls, depth_limit, restricted_urls, arg>>
    /\ UNCHANGED <<transport_vars, master_vars, crawler_vars, indexer_vars, env_vars>>

\* process_content(task): the document handed to the stores
process_content(task) ==
    [url |-> task.url, domain |-> get_domain(task.url),
     depth |-> Get(task, "depth", 0)]

\* the number of records a store holds for a URL
Records(store, url) == Cardinality({ i \in 1..Len(store) : store[i].url = url })

\* writer.add_document in place of update_document: nothing is replaced
add_document(index, document) == Append(index, document)

\* writer.update_document(**document); writer.commit(): url is the unique field,
\* so the documents with that url are deleted and the new one is added
update_document(index, document) ==
    LET IsOther(r) == r.url # document.url
    IN  Append(SelectSeq(index, IsOther), document)

\* INSERT INTO indexed_documents without the ON CONFLICT clause and without
\* the UNIQUE constraint on url
insert_document_in_db(rows, document) == Append(rows, document)

\* store_document_in_db: INSERT ... ON CONFLICT (url) DO UPDATE
store_document_in_db(rows, document) ==
    IF \E i \in 1..Len(rows) : rows[i].url = document.url
    THEN [i \in 1..Len(rows) |->
             IF rows[i].url = document.url THEN document ELSE rows[i]]
    ELSE Append(rows, document)

\* the success result of indexer_process, lines 707-712
IndexSuccess(task, count) ==
    [status |-> "success", indexed_url |-> task.url, indexed_count |-> count]

\* the failure result of indexer_process, lines 718-724
IndexFailure(task, count) ==
    [status |-> "failure", failed_url |-> task.url, error |-> "Indexing failed",
     failed_count |-> count]

\* send_result(result): to result_queue_url, the deduplication id is the md5 of
\* the body; sent_ok is FALSE when sending raises, which is logged and swallowed
send_result(T, result, sent_ok) ==
    IF sent_ok THEN SqsSend(T, result_queue_url, result, <<"md5", result>>) ELSE T

\* whether the next send_result call goes through; a run has MaxSendFaults
\* raising calls and malformed messages in all
SendOutcomes == IF send_faults + poisoned < MaxSendFaults THEN BOOLEAN ELSE {TRUE}

\* line 356 with the attempt number as the exponent
Backoff_AttemptExponent(retries) == BACKOFF_TIME * Pow2(retries + 1)

\* the back-off index_document sleeps after a failed attempt, line 356
Backoff(retries) == BACKOFF_TIME * Pow2(retries)

\* the test of line 355 with "<=": one more retry
MayRetry_OneMore(retries) == retries <= MAX_RETRIES

\* the test of line 355
MayRetry(retries) == retries < MAX_RETRIES

----------------------------------------------------------------------------
(* API requests on the indexing queue. The type of a message is the sequence
   of the pieces of its text: "api_search" is <<"api_", "search">> *)
ApiPrefix == "api_"

\* task["type"].startswith("api_"), line 666
StartsWithApi(type) == type # << >> /\ type[1] = ApiPrefix

\* indexer_process, line 666: task and "type" in task and the prefix test
IsApiRequest(body) ==
    /\ ParsesAsJson(body)
    /\ "type" \in DOMAIN body
    /\ StartsWithApi(body.type)

DefaultPage == 1
DefaultResultsPerPage == 10
DefaultLimit == 10

\* the words of the page behind an indexed document
PageTerms(url) == IF url = UrlA THEN {"cat"} ELSE {"cat", "dog"}

\* the StemmingAnalyzer and record_search_statistics, line 506, lower-case a query
Lower(query) == IF query = "Cat" THEN "cat" ELSE query

\* search_by_word, lines 425-497: the hits of the query in the index, one page
\* of them and their number
search_by_word(index, query, page, results_per_page) ==
    LET IsHit(d)  == Lower(query) \in PageTerms(d.url)
        hits      == SelectSeq(index, IsHit)
        start_idx == (page - 1) * results_per_page
        end_idx   == start_idx + results_per_page
    IN  [results |-> SubSeq(hits, start_idx + 1, Min(end_idx, Len(hits))),
         total   |-> Len(hits)]

\* record_search_statistics, lines 499-521: INSERT ... ON CONFLICT
\* (search_term) DO UPDATE SET search_count = search_count + 1
record_search_statistics(table, query) ==
    LET term == Lower(query)
    IN  IF term \in DOMAIN table
        THEN [table EXCEPT ![term] = @ + 1]
        ELSE [t \in DOMAIN table \cup {term} |-> IF t = term THEN 1 ELSE table[t]]

\* get_popular_searches, lines 523-544: the limit most searched terms
get_popular_searches(table, limit) ==
    LET rows == { [search_term |-> t, search_count |-> table[t]] : t \in DOMAIN table }
    IN  IF Cardinality(rows) <= limit THEN rows
        ELSE CHOOSE top \in SUBSET rows :
                /\ Cardinality(top) = limit
                /\ \A r \in top, o \in rows \ top : r.search_count >= o.search_count

\* get_indexing_stats, lines 546-595: counts over indexed_documents
get_indexing_stats(rows) ==
    [total_documents |-> Len(rows),
     top_domains |-> { rows[i].domain : i \in 1..Len(rows) }]

\* handle_api_request, lines 597-644: the result message, and the
\* search_statistics table after the call
handle_api_request(request_data, index, rows, table) ==
    LET request_type == Get(request_data, "type", << >>)
    IN  IF request_type = <<"search">>
        THEN LET query == Get(request_data, "query", "")
                 page  == Get(request_data, "page", DefaultPage)
                 results_per_page == Get(request_data, "results_per_page",
                                         DefaultResultsPerPage)
                 found == search_by_word(index, query, page, results_per_page)
             IN  [result |-> [type |-> "search_results", query |-> query, page |-> page,
                              results_per_page |-> results_per_page,
                              total_results |-> found.total, results |-> found.results],
                  table |-> record_search_statistics(table, query)]
        ELSE IF request_type = <<"popular_searches">>
        THEN [result |-> [type |-> "popular_searches",
                          popular_searches |->
                              get_popular_searches(table, Get(request_data, "limit",
                                                              DefaultLimit))],
              table |-> table]
        ELSE IF request_type = <<"stats">>
        THEN [result |-> [type |-> "indexing_stats", stats |-> get_indexing_stats(rows)],
              table |-> table]
        ELSE [result |-> [type |-> "error",
                          error |-> <<"Unknown request type: ">> \o request_type],
              table |-> table]

\* indexer_process, lines 663-678: the message is an API request; it is
\* handled, the result is sent, the message is deleted, and the loop goes on
\* without touching idle_counter
IndexerApi ==
    /\ idx_pc = "receive"
    /\ queue["indexer"] # << >>
    /\ IsApiRequest(Head(queue["indexer"]).body)
    /\ LET request == Head(queue["indexer"]).body
           handled == handle_api_request(request, whoosh, db, search_statistics)
       IN  /\ search_statistics' = handled.table
           /\ \E sent_ok \in SendOutcomes :
                LET T1 == send_result(Transport, handled.result, sent_ok)
                IN  /\ SetTransport(SqsDelete(T1, "indexer"))
                    /\ send_faults' = IF sent_ok THEN send_faults ELSE send_faults + 1
                    /\ api_log' = Append(api_log,
                          [request |-> request, result |-> handled.result,
                           calls |-> <<"send_message", "delete_message">>,
                           raised |-> ~sent_ok,
                           accepted |-> Len(T1.queue[result_queue_url])
                                          - Len(queue[result_queue_url])])
    /\ idx_polls' = 0
    /\ UNCHANGED <<idx_pc, idx_task, idx_idle, retry_count, indexed_count, failed_count,
                   whoosh, db, idx_outcomes, idx_waits, idx_log, faults, expired>>
    /\ UNCHANGED <<input_vars, master_vars, crawler_vars, env_vars>>

\* indexer_process, lines 663 and 690-694 with receive_task: a document is
\* received; it stays on the queue until it is deleted
IndexerReceive ==
    /\ idx_pc = "receive"
    /\ queue["indexer"] # << >>
    /\ ~IsApiRequest(Head(queue["indexer"]).body)
    /\ HasUrl(Head(queue["indexer"]).body)
    /\ idx_task' = Head(queue["indexer"]).body
    /\ idx_idle' = 0
    /\ retry_count' = 0
    /\ idx_outcomes' = << >>
    /\ idx_waits' = << >>
    /\ idx_pc' = "index"
    /\ idx_polls' = 0
    /\ UNCHANGED <<indexed_count, failed_count, whoosh, db, idx_log, faults, send_faults>>
    /\ UNCHANGED <<transport_vars, input_vars, master_vars, crawler_vars, env_vars>>
    /\ UNCHANGED <<search_statistics, api_log>>

\* indexer_process, lines 681-688: no message
IndexerIdle ==
    /\ idx_pc = "receive"
    /\ queue["indexer"] = << >>
    /\ idx_idle' = idx_idle + 1
    /\ idx_pc' = IF idx_idle + 1 >= MAX_IDLE_COUNT THEN "exited" ELSE "receive"
    /\ idx_polls' = idx_polls + 1
    /\ UNCHANGED <<idx_task, retry_count, indexed_count, failed_count, whoosh, db,
                   idx_outcomes, idx_waits, idx_log, faults, send_faults>>
    /\ UNCHANGED <<transport_vars, input_vars, master_vars, crawler_vars, env_vars>>
    /\ UNCHANGED <<search_statistics, api_log>>

\* receive_task, lines 285-290, and indexer_process, lines 681-691: a message
\* that is not JSON is deleted and counted as an idle poll; a JSON object
\* without 'url' is handed on, task['url'] raises KeyError outside any try
\* block and the process ends with the message still on the queue
IndexerMalformed ==
    /\ idx_pc = "receive"
    /\ queue["indexer"] # << >>
    /\ ~IsApiRequest(Head(queue["indexer"]).body)
    /\ ~HasUrl(Head(queue["indexer"]).body)
    /\ LET body == Head(queue["indexer"]).body
       IN  IF ParsesAsJson(body)
           THEN /\ idx_pc' = "crashed"
                /\ idx_idle' = 0
                /\ idx_polls' = 0
                /\ poison_log' = Poisoned("indexer", body, FALSE)
                /\ UNCHANGED transport_vars
           ELSE /\ idx_idle' = idx_idle + 1
                /\ idx_pc' = IF idx_idle + 1 >= MAX_IDLE_COUNT THEN "exited" ELSE "receive"
                /\ idx_polls' = idx_polls + 1
                /\ poison_log' = Poisoned("indexer", body, TRUE)
                /\ SetTransport(SqsDelete(Transport, "indexer"))
                /\ UNCHANGED expired
    /\ UNCHANGED <<idx_task, retry_count, indexed_count, failed_count, whoosh, db,
                   idx_outcomes, idx_waits, idx_log, faults, send_faults>>
    /\ UNCHANGED <<docs_sent, results_sent, poisoned>>
    /\ UNCHANGED <<input_vars, master_vars, crawler_vars>>
    /\ UNCHANGED <<search_statistics, api_log>>

\* index_document, lines 348-359: the write raised and is retried after a sleep
IndexAttemptRetry ==
    /\ idx_pc = "index"
    /\ faults < MaxFaults
    /\ MayRetry(retry_count)
    /\ faults' = faults + 1
    /\ idx_outcomes' = Append(idx_outcomes, FALSE)
    /\ idx_waits' = Append(idx_waits, Backoff(retry_count))
    /\ retry_count' = retry_count + 1
    /\ UNCHANGED <<idx_pc, idx_task, idx_idle, indexed_count, failed_count, whoosh, db,
                   idx_log, send_faults, idx_polls>>
    /\ UNCHANGED <<transport_vars, input_vars, master_vars, crawler_vars, env_vars>>
    /\ UNCHANGED <<search_statistics, api_log>>

\* index_document, lines 348-362, and indexer_process, lines 713-726: the
\* write raised and no retry is left; the message is not deleted
IndexAttemptGiveUp ==
    /\ idx_pc = "index"
    /\ faults < MaxFaults
    /\ ~MayRetry(retry_count)
    /\ faults' = faults + 1
    /\ failed_count' = failed_count + 1
    /\ \E sent_ok \in SendOutcomes :
         /\ SetTransport(send_result(Transport, IndexFailure(idx_task, failed_count + 1),
                                     sent_ok))
         /\ send_faults' = IF sent_ok THEN send_faults ELSE send_faults + 1
    /\ idx_log' = Append(idx_log,
          [url |-> idx_task.url, outcomes |-> Append(idx_outcomes, FALSE),
           waits |-> idx_waits, db_ok |-> FALSE, deleted |-> FALSE,
           results |-> <<IndexFailure(idx_task, failed_count + 1)>>])
    /\ idx_pc' = "receive"
    /\ idx_task' = NoTask
    /\ UNCHANGED <<idx_idle, retry_count, indexed_count, whoosh, db, idx_outcomes,
                   idx_waits, expired, idx_polls>>
    /\ UNCHANGED <<input_vars, master_vars, crawler_vars, env_vars>>
    /\ UNCHANGED <<search_statistics, api_log>>

\* index_document, lines 338-347, and indexer_process, lines 700-712 and 726:
\* the index write committed; db_ok is FALSE when store_document_in_db caught
\* an exception and returned False, which index_document does not look at
IndexAttemptOk ==
    /\ idx_pc = "index"
    /\ LET document == process_content(idx_task)
       IN  /\ whoosh' = update_document(whoosh, document)
           /\ \E db_ok \in BOOLEAN :
                /\ db' = IF db_ok THEN store_document_in_db(db, document) ELSE db
                /\ idx_log' = Append(idx_log,
                      [url |-> idx_task.url, outcomes |-> Append(idx_outcomes, TRUE),
                       waits |-> idx_waits, db_ok |-> db_ok, deleted |-> TRUE,
                       results |-> <<IndexSuccess(idx_task, indexed_count + 1)>>])
    /\ indexed_count' = indexed_count + 1
    /\ \E sent_ok \in SendOutcomes :
         /\ SetTransport(send_result(SqsDelete(Transport, "indexer"),
                                     IndexSuccess(idx_task, indexed_count + 1), sent_ok))
         /\ send_faults' = IF sent_ok THEN send_faults ELSE send_faults + 1
    /\ idx_pc' = "receive"
    /\ idx_task' = NoTask
    /\ UNCHANGED <<idx_idle, retry_count, failed_count, idx_outcomes, idx_waits, faults,
                   expired, idx_polls>>
    /\ UNCHANGED <<input_vars, master_vars, crawler_vars, env_vars>>
    /\ UNCHANGED <<search_statistics, api_log>>

\* the tasks whose pages the crawl workers send as documents
DocTasks == { [url |-> UrlA, depth |-> 0, seed_domain |-> "example.com", depth_limit |-> 1],
              [url |-> UrlB, depth |-> 1, seed_domain |-> "example.com", depth_limit |-> 1] }

\* a crawl worker finished a page: crawler_process, line 178
CrawlerSendsDocument ==
    /\ docs_sent < MaxDocs
    /\ \E task \in DocTasks : SetTransport(send_to_indexer(Transport, Document(task)))
    /\ docs_sent' = docs_sent + 1
    /\ UNCHANGED <<expired, results_sent, poisoned, poison_log>>
    /\ UNCHANGED <<input_vars, master_vars, crawler_vars, indexer_vars>>

----------------------------------------------------------------------------
(* What reaches the master's result queues *)

\* the crawl results the workers send: a failed fetch, two fetched pages
CrawlResults ==
    { ErrorResult([url |-> UrlC, depth |-> 0, seed_domain |-> "other.com", depth_limit |-> 1]),
      SuccessResult([url |-> UrlA, depth |-> 0, seed_domain |-> "example.com",
                     depth_limit |-> 1], {UrlA, UrlB, UrlC}),
      SuccessResult([url |-> UrlB, depth |-> 1, seed_domain |-> "example.com",
                     depth_limit |-> 1], {UrlA, UrlB}) }

\* a crawl worker finished a task: crawler_process, lines 146-151 and 192
CrawlerSendsResult ==
    /\ results_sent < MaxResults
    /\ \E payload \in CrawlResults : SetTransport(send_crawl_result(Transport, payload))
    /\ results_sent' = results_sent + 1
    /\ UNCHANGED <<expired, docs_sent, poisoned, poison_log>>
    /\ UNCHANGED <<input_vars, master_vars, crawler_vars, indexer_vars>>

\* an index result becomes available on indexer-result-queue.fifo, the queue
\* receive_indexer_results polls
IndexResultArrives ==
    /\ results_sent < MaxResults
    /\ LET result == IndexSuccess([url |-> UrlA], results_sent + 1)
       IN  SetTransport(SqsSend(Transport, indexer_result_queue_url, result,
                                   <<"md5", result>>))
    /\ results_sent' = results_sent + 1
    /\ UNCHANGED <<expired, docs_sent, poisoned, poison_log>>
    /\ UNCHANGED <<input_vars, master_vars, crawler_vars, indexer_vars>>

----------------------------------------------------------------------------
(* Malformed messages *)

\* a message body that is not JSON, or a JSON object without 'url'; n tells
\* one such message from the next
MalformedBody(kind, n) ==
    IF kind = "invalid_json" THEN [invalid_json |-> n] ELSE [depth |-> 0, serial |-> n]

\* a sender with access to the queue puts a malformed message on it
PutMalformed(q, kind) ==
    /\ poisoned + poll_faults < MaxPoison
    /\ SetTransport(SqsSend(Transport, q, MalformedBody(kind, poisoned + 1),
                            <<"malformed", poisoned + 1>>))
    /\ poisoned' = poisoned + 1
    /\ UNCHANGED <<expired, poison_log>>
    /\ UNCHANGED <<input_vars, master_vars, crawler_vars, indexer_vars>>

\* a malformed message reaches the task queue
MalformedArrives(q) ==
    /\ \E kind \in {"invalid_json", "missing_url"} : PutMalformed(q, kind)
    /\ UNCHANGED <<docs_sent, results_sent>>

\* a message that is not JSON reaches one of the master's result queues
MalformedResultArrives ==
    /\ results_sent < MaxResults
    /\ \E q \in {"crawler_result", "indexer_result"} : PutMalformed(q, "invalid_json")
    /\ results_sent' = results_sent + 1
    /\ UNCHANGED docs_sent

\* a malformed message reaches the index queue in place of a document
MalformedDocumentArrives ==
    /\ docs_sent < MaxDocs
    /\ \E kind \in {"invalid_json", "missing_url"} : PutMalformed("indexer", kind)
    /\ docs_sent' = docs_sent + 1
    /\ UNCHANGED results_sent

----------------------------------------------------------------------------
(* Initial states *)
InitTransport ==
    /\ queue = [q \in QueueNames |-> << >>]
    /\ dedup = [q \in QueueNames |-> << >>]
    /\ expired = 0
    /\ task_log = << >>

\* --depth is parsed with type=int and is not validated when --urls is given:
\* zero and negative limits reach master_process (lines 16 and 291-293)
DepthArgs == {-1} \cup (0..MaxDepth)

\* --restricted as given with a seed list: nothing for the runs on one site,
\* a domain and a URL for the run on two sites
RestrictedArgs(seeds) ==
    IF \E i \in 1..Len(seeds) : get_domain(seeds[i]) = "other.com"
    THEN RestrictedUniverse ELSE {}

\* no function is called on its own
NoCall == arg = NoTask /\ ret = NoTask

\* master_process(seed_urls, depth_limit, restricted_urls) as the operator calls it
InitInput ==
    /\ seed_urls \in SeedLists
    /\ depth_limit \in DepthArgs
    /\ restricted_urls = RestrictedArgs(seed_urls)

NoInput ==
    /\ seed_urls = << >>
    /\ depth_limit = 0
    /\ restricted_urls = {}

\* master_node.py, lines 31 and 170-182
InitMaster ==
    /\ master_pc = "seed"
    /\ seed_i = 1
    /\ visited_urls = {}
    /\ idle_counter = 0
    /\ crawler_results = << >>
    /\ crawler_stats = [urls_processed |-> 0, success |-> 0, errors |-> 0, restricted |-> 0,
                        by_depth |-> << >>, by_domain |-> << >>]
    /\ indexer_stats = [pages_indexed |-> 0, keywords_indexed |-> 0]
    /\ master_sent = << >>
    /\ empty_rounds = 0
    /\ declared = 0
    /\ poll_raised = FALSE
    /\ poll_faults = 0
    /\ elapsed = 0

\* crawler_process, line 127
InitCrawler ==
    /\ crawler = [c \in Crawlers |-> [pc |-> "receive", task |-> NoTask, idle_counter |-> 0]]
    /\ fetched = << >>
    /\ last_expand = NoTask
    /\ emit_log = << >>
    /\ crawler_polls = [c \in Crawlers |-> 0]
    /\ domain_age = [d \in Domains |-> POLITENESS_DELAY]
    /\ min_gap = POLITENESS_DELAY

\* indexer_process, lines 656-658
InitIndexer ==
    /\ idx_pc = "receive"
    /\ idx_task = NoTask
    /\ idx_idle = 0
    /\ retry_count = 0
    /\ indexed_count = 0
    /\ failed_count = 0
    /\ whoosh = << >>
    /\ db = << >>
    /\ idx_outcomes = << >>
    /\ idx_waits = << >>
    /\ idx_log = << >>
    /\ faults = 0
    /\ send_faults = 0
    /\ idx_polls = 0
    /\ search_statistics = << >>
    /\ api_log = << >>

InitEnv ==
    /\ docs_sent = 0
    /\ results_sent = 0
    /\ poisoned = 0
    /\ poison_log = {}

----------------------------------------------------------------------------
(* The master seeding the task queue and the crawler workers consuming it *)
InitCrawl == InitTransport /\ InitInput /\ InitMaster /\ InitCrawler /\ InitIndexer /\ InitEnv
    /\ NoCall

NextCrawl ==
    \/ MasterSeed
    \/ MasterStartLoop
    \/ \E c \in Crawlers : CrawlerReceive(c)
    \/ \E c \in Crawlers : CrawlerIdle(c)
    \/ \E c \in Crawlers : CrawlerFetchFail(c)
    \/ \E c \in Crawlers : CrawlerFetchOk(c)
    \/ DedupExpire("crawler")

SpecCrawl == InitCrawl /\ [][NextCrawl]_vars

----------------------------------------------------------------------------
(* The crawl of one or two sites when queue calls raise and malformed messages
   reach the task queue *)
FaultInput ==
    /\ seed_urls \in { <<UrlA>>, <<UrlC, UrlA>> }
    /\ depth_limit \in {0, 1}
    /\ restricted_urls = {}

InitCrawlFaults ==
    InitTransport /\ FaultInput /\ InitMaster /\ InitCrawler /\ InitIndexer /\ InitEnv
    /\ NoCall

NextCrawlFaults ==
    \/ MasterSeed
    \/ MasterStartLoop
    \/ MalformedArrives("crawler")
    \/ \E c \in Crawlers : CrawlerReceive(c)
    \/ \E c \in Crawlers : CrawlerIdle(c)
    \/ \E c \in Crawlers : CrawlerMalformed(c)
    \/ \E c \in Crawlers : CrawlerFetchFail(c)
    \/ \E c \in Crawlers : CrawlerFetchOk(c)
    \/ \E c \in Crawlers : CrawlerSendRaises(c)

SpecCrawlFaults == InitCrawlFaults /\ [][NextCrawlFaults]_vars

----------------------------------------------------------------------------
(* The indexer and the documents the crawl workers send it *)
InitIndex == InitTransport /\ NoInput /\ InitMaster /\ InitCrawler /\ InitIndexer /\ InitEnv
    /\ NoCall

NextIndex ==
    \/ CrawlerSendsDocument
    \/ DedupExpire("indexer")
    \/ MalformedDocumentArrives
    \/ IndexerReceive
    \/ IndexerMalformed
    \/ IndexerIdle
    \/ IndexAttemptRetry
    \/ IndexAttemptGiveUp
    \/ IndexAttemptOk

SpecIndex == InitIndex /\ [][NextIndex]_vars

----------------------------------------------------------------------------
(* The indexer against documents and API requests *)

\* the requests of the API: two searches, the popular searches, the statistics
ApiRequests ==
    { [type |-> <<ApiPrefix, "search">>, query |-> "cat"],
      [type |-> <<ApiPrefix, "search">>, query |-> "Cat"],
      [type |-> <<ApiPrefix, "popular_searches">>],
      [type |-> <<ApiPrefix, "stats">>] }

\* an API request reaches indexer-queue.fifo; put counts the requests so far
ApiRequestArrives ==
    /\ LET IsRequest(m) == IsApiRequest(m.body)
           put == Len(api_log) + Len(SelectSeq(queue["indexer"], IsRequest))
       IN  /\ put < MaxRequests
           /\ \E request \in ApiRequests :
                 SetTransport(SqsSend(Transport, "indexer", request,
                                      <<"request", put + 1>>))
    /\ UNCHANGED expired
    /\ UNCHANGED <<input_vars, master_vars, crawler_vars, indexer_vars, env_vars>>

NextApi ==
    \/ CrawlerSendsDocument
    \/ ApiRequestArrives
    \/ IndexerApi
    \/ IndexerReceive
    \/ IndexAttemptOk

SpecApi == InitIndex /\ [][NextApi]_vars

----------------------------------------------------------------------------
(* The master against the results that reach its two result queues *)
OneSeed ==
    /\ seed_urls = <<UrlA>>
    /\ depth_limit = 1
    /\ restricted_urls = {}

InitMasterLoop == InitTransport /\ OneSeed /\ InitMaster /\ InitCrawler /\ InitIndexer /\ InitEnv
    /\ NoCall

NextMaster ==
    \/ MasterSeed
    \/ MasterStartLoop
    \/ MasterPollCrawler
    \/ MasterPollIndexer
    \/ CrawlerSendsResult
    \/ IndexResultArrives
    \/ MalformedResultArrives

SpecMaster == InitMasterLoop /\ [][NextMaster]_vars

----------------------------------------------------------------------------
(* The master seeding, a crawler worker and the indexer, each with its own
   idle counter *)

\* python master_node.py --urls http://example.com/a --depth 0
SeedOnly ==
    /\ seed_urls = <<UrlA>>
    /\ depth_limit = 0
    /\ restricted_urls = {}

InitWorkers == InitTransport /\ SeedOnly /\ InitMaster /\ InitCrawler /\ InitIndexer /\ InitEnv
    /\ NoCall

NextWorkers ==
    \/ MasterSeed
    \/ MasterStartLoop
    \/ \E c \in Crawlers : CrawlerReceive(c)
    \/ \E c \in Crawlers : CrawlerIdle(c)
    \/ \E c \in Crawlers : CrawlerFetchFail(c)
    \/ \E c \in Crawlers : CrawlerFetchOk(c)
    \/ IndexerReceive
    \/ IndexerIdle
    \/ IndexAttemptRetry
    \/ IndexAttemptGiveUp
    \/ IndexAttemptOk

SpecWorkers == InitWorkers /\ [][NextWorkers]_vars

----------------------------------------------------------------------------
(* prepare_restricted_patterns called on one entry *)
InitPatterns ==
    /\ InitTransport /\ NoInput /\ InitMaster /\ InitCrawler /\ InitIndexer /\ InitEnv
    /\ arg \in [fn : {"prepare_restricted_patterns"}, entry : Entries, url : TriedUrls]
    /\ ret = NoTask

SpecPatterns == InitPatterns /\ [][CompilePattern]_vars

----------------------------------------------------------------------------
(* extract_keywords called on one text *)
InitKeywords ==
    /\ InitTransport /\ NoInput /\ InitMaster /\ InitCrawler /\ InitIndexer /\ InitEnv
    /\ arg \in [fn : {"extract_keywords"}, text : Texts(MaxWords),
                 max_keywords : 1..MaxKeywords]
    /\ ret = NoTask

SpecKeywords == InitKeywords /\ [][ExtractKeywords]_vars

----------------------------------------------------------------------------
(* Properties of the crawl frontier, checked under SpecCrawl *)

\* the task messages waiting on the task queue
QueuedTasks == { queue["crawler"][i].body : i \in 1..Len(queue["crawler"]) }

\* a child task is one a crawl worker sent: its deduplication id is a sha256 digest
QueuedChildren ==
    { queue["crawler"][i].body :
        i \in { j \in 1..Len(queue["crawler"]) : queue["crawler"][j].dedup_id[1] = "sha256" } }

Expanded == last_expand # NoTask

\* C1: every child task a crawl worker sends while expanding a parent has
\* depth = parent.depth + 1 and depth <= depth_limit, and no child task on the
\* task queue has a depth above the depth limit, however far it is from its seed.
C1_ChildDepthBounded ==
    /\ \A t \in QueuedChildren : t.depth >= 1 /\ t.depth <= t.depth_limit
                                 /\ t.depth_limit = depth_limit
    /\ Expanded =>
          \A ch \in last_expand.sent :
              /\ ch.depth = last_expand.parent.depth + 1
              /\ ch.depth <= last_expand.parent.depth_limit

\* a child two expansion steps away from its seed, at the depth limit, is queued
C1_Witness ==
    \E t \in QueuedChildren : t.depth = 2 /\ t.depth = depth_limit

\* the extracted links of the last expansion that lie outside the seed domain
CrossDomain == { u \in last_expand.extracted : get_domain(u) # last_expand.parent.seed_domain }

\* C2: every child task a crawl worker sends has the domain of its parent's
\* seed_domain; a link of another domain is counted in extracted_urls_count but
\* is not put on the task queue, and no task is fetched outside its seed domain.
C2_SameOrigin ==
    /\ \A t \in QueuedChildren : get_domain(t.url) = t.seed_domain
    /\ \A i \in 1..Len(fetched) : get_domain(fetched[i].url) = fetched[i].seed_domain
    /\ Expanded =>
          /\ \A ch \in last_expand.sent \cup last_expand.enqueued :
                /\ get_domain(ch.url) = last_expand.parent.seed_domain
                /\ ch.seed_domain = last_expand.parent.seed_domain
          /\ \A u \in CrossDomain :
                \A ch \in last_expand.sent \cup last_expand.enqueued : ch.url # u
          /\ last_expand.result.extracted_urls_count
                >= Cardinality(last_expand.sent) + Cardinality(CrossDomain)

\* a page with a cross-domain link and a same-domain link was expanded, and its
\* child was fetched in turn
C2_Witness ==
    /\ Expanded
    /\ CrossDomain # {}
    /\ last_expand.sent # {}
    /\ \E i \in 1..Len(fetched) : fetched[i].depth = 1

\* C3: a task whose URL matches a compiled restricted pattern is never handed to
\* the fetcher (the worker reports it with status=restricted instead).
C3_RestrictedNeverFetched ==
    \A i \in 1..Len(fetched) :
        ~Restricted(prepare_restricted_patterns(restricted_urls), fetched[i].url)

\* two URLs that differ only by their fragment
SameButFragment(u1, u2) == [u1 EXCEPT !.fragment = ""] = [u2 EXCEPT !.fragment = ""]

\* C4: URLs that differ only by their fragment have the same deduplication key,
\* and submitting both enqueues at most one task.
C4_FragmentDedup ==
    \A i, j \in 1..Len(task_log) :
        SameButFragment(task_log[i].body.url, task_log[j].body.url)
           => task_log[i].dedup_id = task_log[j].dedup_id /\ i = j

\* C5: seed http://example.com/a, depth_limit = 1, page a links to /b, to
\* http://other.com/c and to /a#frag: exactly one new task is enqueued, /b at
\* depth 1.
C5_Scenario ==
    ( /\ Expanded
      /\ seed_urls = <<UrlA>>
      /\ depth_limit = 1
      /\ last_expand.parent.url = UrlA
      /\ last_expand.parent.depth = 0
      /\ last_expand.links = {UrlB, UrlC, UrlAfrag} )
    => last_expand.enqueued = { ChildTask(UrlB, 1, "example.com", 1) }

\* C6: no normalized URL is fetched more than once in a run, whether its task
\* was enqueued by the master as a seed or by a crawl worker as a child.
C6_FetchedOnce ==
    \A i, j \in 1..Len(fetched) :
        Normalize(fetched[i].url) = Normalize(fetched[j].url) => i = j

\* the seed URLs send_task_to_queue has been called with so far
Seeded == { seed_urls[i] : i \in 1..(seed_i - 1) }

\* the send calls of the master for a URL, and the seed tasks the queue took
SeedCalls(url) == { k \in 1..Len(master_sent) : master_sent[k].body.url = url }
SeedTasks(url) ==
    { k \in 1..Len(task_log) :
        task_log[k].dedup_id[1] = "md5" /\ task_log[k].body.url = url }

\* C19: the master sends a task with depth 0 and seed_domain = domain(url)
\* for a seed URL exactly when the URL's hash is not yet in the visited set,
\* and marks it visited: however often a URL stands in the seed list, it is
\* sent once and enqueued at most once.
C19_SeedAdmission ==
    /\ visited_urls = { hash_url(u) : u \in Seeded }
    /\ \A k \in 1..Len(master_sent) :
          /\ master_sent[k].body.url \in Seeded
          /\ master_sent[k].body.depth = 0
          /\ master_sent[k].body.seed_domain = get_domain(master_sent[k].body.url)
          /\ master_sent[k].body.depth_limit = depth_limit
          /\ master_sent[k].dedup_id = hash_url(master_sent[k].body.url)
    /\ \A u \in Seeded :
          /\ Cardinality(SeedCalls(u)) = 1
          /\ Cardinality(SeedTasks(u)) =
                (IF \E k \in SeedCalls(u) : master_sent[k].raised THEN 0 ELSE 1)

\* a seed list with the same URL twice was worked through: one call, one task
C19_Witness ==
    /\ seed_urls = <<UrlA, UrlA>>
    /\ seed_i = 3
    /\ Cardinality(SeedCalls(UrlA)) = 1
    /\ Cardinality(SeedTasks(UrlA)) = 1

\* C20: every task on the task queue, seeds included, has
\* 0 <= depth <= depth_limit, whatever depth limit the master took from its
\* operator.
C20_DepthWithinLimit ==
    \A t \in QueuedTasks : 0 <= t.depth /\ t.depth <= t.depth_limit

----------------------------------------------------------------------------
(* Properties of a crawl worker's task handling, checked under SpecCrawlFaults *)

\* the child tasks send_urls_to_crawler_queue admits for a task
Admitted(task) ==
    ChildrenOf(extract_urls(Web(task.url)), task.depth, task.seed_domain, task.depth_limit)

\* the handled tasks whose fetch succeeded, and those whose fetch failed
FetchedOk == { i \in 1..Len(emit_log) : emit_log[i].fetch_ok }
FetchFailed == { i \in 1..Len(emit_log) : ~emit_log[i].fetch_ok }

\* C14: for every task whose fetch succeeds the crawl worker sends its admitted
\* child tasks, then exactly one Document to the index queue, then exactly one
\* CrawlResult with status=success to the result queue.
C14_OneDocumentOneResult ==
    \A i \in FetchedOk :
        LET task == emit_log[i].task
        IN  /\ emit_log[i].children = Admitted(task)
            /\ Len(emit_log[i].rest) = 2
            /\ emit_log[i].rest[1].queue = "indexer"
            /\ emit_log[i].rest[1].body = Document(task)
            /\ emit_log[i].rest[2].queue = "crawler_result"
            /\ emit_log[i].rest[2].body.status = "success"
            /\ emit_log[i].rest[2].body.url = task.url

\* C15: for every task whose fetch fails the crawl worker sends exactly one
\* CrawlResult with status=error and an error description, no Document and no
\* child task, and neither fetches the task again nor puts it back on the
\* task queue.
C15_OneErrorResult ==
    \A i \in FetchFailed :
        LET task == emit_log[i].task
        IN  /\ emit_log[i].children = {}
            /\ Len(emit_log[i].rest) = 1
            /\ emit_log[i].rest[1].queue = "crawler_result"
            /\ emit_log[i].rest[1].body.status = "error"
            /\ emit_log[i].rest[1].body.error = "Failed to fetch"
            /\ emit_log[i].rest[1].body.url = task.url

\* a fetch failed at depth 1, only its error result was sent, and the worker
\* went on to the next task
C15_Witness ==
    \E i \in FetchFailed :
        /\ emit_log[i].task.depth = 1
        /\ ~emit_log[i].raised
        /\ i < Len(emit_log)

\* C16: a consumer that receives a message with a malformed body (not JSON,
\* or without a required field) deletes it at once, and no consumer receives
\* such a message a second time.
C16_PoisonDiscarded ==
    \A e \in poison_log : e.deleted /\ ~e.again

\* C18: no failure while a task is handled (a queue send that raises, a missing
\* field, a parse failure) ends a worker process: the worker sends a result for
\* the task and goes on with the next message.
C18_WorkersSurvive ==
    /\ \A c \in Crawlers : crawler[c].pc # "crashed"
    /\ idx_pc # "crashed"
    /\ \A i \in 1..Len(emit_log) :
          /\ ~emit_log[i].raised
          /\ emit_log[i].rest # << >>
          /\ emit_log[i].rest[Len(emit_log[i].rest)].queue = "crawler_result"

----------------------------------------------------------------------------
(* Properties of the indexer, checked under SpecIndex *)

DocUrls == { t.url : t \in DocTasks }

\* the finished handlings of the documents of a URL whose index write committed
Indexed(url) == { i \in 1..Len(idx_log) : idx_log[i].url = url /\ idx_log[i].deleted }

\* those whose row also reached the indexed_documents table
Stored(url) == { i \in Indexed(url) : idx_log[i].db_ok }

\* C7: handling the Document of a URL again leaves one record for the URL in
\* the full-text index and one row in the document table: both writes are
\* upserts keyed by url, so neither store ever holds two records of one URL.
C7_UpsertIdempotent ==
    \A url \in DocUrls :
        /\ Records(whoosh, url) <= 1
        /\ Records(db, url) <= 1
        /\ Records(whoosh, url) = (IF Indexed(url) # {} THEN 1 ELSE 0)
        /\ Records(db, url) = (IF Stored(url) # {} THEN 1 ELSE 0)

\* the Document of a URL was delivered and written twice, and each store holds
\* one record of it
C7_Witness ==
    \E url \in DocUrls :
        /\ Cardinality(Stored(url)) >= 2
        /\ Records(whoosh, url) = 1
        /\ Records(db, url) = 1

\* C10: when the index write of a document fails twice and succeeds on the
\* third attempt, index_document has slept 10 s and then 20 s, and the indexer
\* emits one success IndexResult and no failure IndexResult for the document.
C10_BackoffScenario ==
    \A i \in 1..Len(idx_log) :
        idx_log[i].outcomes = <<FALSE, FALSE, TRUE>>
           => /\ idx_log[i].waits = <<10, 20>>
              /\ Len(idx_log[i].results) = 1
              /\ idx_log[i].results[1].status = "success"
              /\ idx_log[i].results[1].indexed_url = idx_log[i].url
              /\ idx_log[i].deleted

\* a document was indexed at the third attempt
C10_Witness ==
    \E i \in 1..Len(idx_log) : idx_log[i].outcomes = <<FALSE, FALSE, TRUE>>

\* the finished handlings that ended in a failure IndexResult
Failures == { i \in 1..Len(idx_log) : idx_log[i].results[1].status = "failure" }

\* C11: index_document makes at most MAX_RETRIES (3) write attempts for one
\* document, sleeps BACKOFF_TIME * 2^(attempt-1) after failed attempt number
\* attempt, and returns failure once the three attempts have failed.
C11_AttemptBudget ==
    /\ Len(idx_outcomes) <= MAX_RETRIES
    /\ \A i \in 1..Len(idx_log) :
          /\ Len(idx_log[i].outcomes) <= MAX_RETRIES
          /\ \A k \in 1..Len(idx_log[i].waits) :
                idx_log[i].waits[k] = BACKOFF_TIME * Pow2(k - 1)
          /\ i \in Failures => idx_log[i].outcomes = [k \in 1..MAX_RETRIES |-> FALSE]

\* C12: once the retries of a document are exhausted the indexer emits one
\* failure IndexResult, counts one more failure and deletes the queue message,
\* so the Document is not received again.
C12_TerminalFailure ==
    /\ failed_count = Cardinality(Failures)
    /\ \A i \in Failures :
          /\ Len(idx_log[i].results) = 1
          /\ idx_log[i].results[1].failed_url = idx_log[i].url
          /\ idx_log[i].deleted

\* C13: a Document message is deleted and reported with a success IndexResult
\* only when its write to the full-text index and its write to the document
\* table both committed.
C13_AckAfterCommit ==
    \A i \in 1..Len(idx_log) :
        (idx_log[i].deleted /\ idx_log[i].results[1].status = "success")
           => /\ idx_log[i].outcomes[Len(idx_log[i].outcomes)]
              /\ idx_log[i].db_ok

----------------------------------------------------------------------------
(* Properties of the master's result loop, checked under SpecMaster *)

\* the master is between two polling rounds, or has left the loop
RoundOver == master_pc \in {"poll_crawler", "done"}

\* C8: the idle counter goes up by one in each round in which both polls came
\* back empty and is zero after a round in which either queue gave a result, so
\* it equals the number of consecutive most recent empty rounds.
C8_IdleCounter ==
    /\ RoundOver => idle_counter = empty_rounds
    /\ master_pc = "poll_indexer" =>
          idle_counter = (IF crawler_results # << >> THEN 0 ELSE empty_rounds)

\* empty rounds were counted again after results of both queues had reset the
\* counter
C8_Witness ==
    /\ master_pc = "poll_crawler"
    /\ idle_counter = 3
    /\ crawler_stats.urls_processed > 0
    /\ indexer_stats.pages_indexed > 0

\* the workers a termination signal would have to reach
Workers == Crawlers \cup {"indexer"}

\* what the master sent other than seed tasks
ShutdownSignals ==
    { master_sent[k] : k \in { j \in 1..Len(master_sent) : master_sent[j].phase # "seed" } }

----------------------------------------------------------------------------
(* The index results and the queue the master polls for them *)

IsIndexResult(body) == "indexed_url" \in DOMAIN body \/ "failed_url" \in DOMAIN body

\* C21: every index result the indexer sent is on the index-result queue the
\* master polls, where the master can receive it and reset its idle counter
C21_ResultsOnPolledQueue ==
    \A q \in QueueNames : \A i \in 1..Len(queue[q]) :
        IsIndexResult(queue[q][i].body) => q = indexer_result_queue_url

----------------------------------------------------------------------------
(* The result loop of the master and the queues it writes *)

\* C22: once seeding is over no step writes to the task queue or to the index
\* queue; counting a result, an error result included, leaves the task queue,
\* its deduplication window, the index queue, the master's sends and its
\* visited set as they are: the master sends no task again
C22_LoopOnlyCounts ==
    [][ master_pc # "seed" =>
          /\ queue'["crawler"] = queue["crawler"]
          /\ dedup'["crawler"] = dedup["crawler"]
          /\ queue'["indexer"] = queue["indexer"]
          /\ task_log' = task_log
          /\ master_sent' = master_sent
          /\ visited_urls' = visited_urls ]_vars

\* the master counted an error result and an index result in its loop, and
\* the task queue holds the seed task and nothing else
C22_Witness ==
    /\ master_pc = "poll_crawler"
    /\ crawler_stats.errors >= 1
    /\ indexer_stats.pages_indexed >= 1
    /\ Len(queue["crawler"]) = 1
    /\ queue["crawler"][1].body = SeedTask(UrlA, depth_limit, {})
    /\ Len(master_sent) = 1

----------------------------------------------------------------------------
(* The visited set of the master *)

\* C23: the visited set only grows, no step removes a hash from it; and the
\* deduplication hash of every seed task the master has sent, and of every
\* seed task the task queue has taken, is in the visited set
C23_VisitedGrows ==
    /\ [](/\ \A k \in 1..Len(master_sent) : master_sent[k].dedup_id \in visited_urls
          /\ \A k \in 1..Len(task_log) :
                task_log[k].body.depth = 0 => task_log[k].dedup_id \in visited_urls)
    /\ [][visited_urls \subseteq visited_urls']_vars

\* two different seeds were enqueued and both hashes are in the visited set
C23_Witness ==
    /\ Cardinality(visited_urls) = 2
    /\ Cardinality({ k \in 1..Len(task_log) : task_log[k].body.depth = 0 }) = 2
    /\ master_pc = "poll_crawler"

----------------------------------------------------------------------------
(* The idle exit of the workers *)

----------------------------------------------------------------------------
(* The time the master takes to shut down *)

\* C25: when the master declares the run over after 30 consecutive empty
\* rounds, no more than 30 intervals of 5 seconds, 150 seconds, and a
\* tolerance of one interval have passed since it last received a result
C25_ShutdownWithinBudget ==
    master_pc = "done" => elapsed <= ShutdownBudget + MasterSleep

----------------------------------------------------------------------------
(* Politeness towards the fetched domains *)

\* C26: two fetches from the same domain are never closer together than the
\* politeness delay
C26_PolitenessPerDomain == min_gap >= POLITENESS_DELAY

----------------------------------------------------------------------------
(* What a crawl result says of its task, and how the master counts it *)

\* the crawl results a worker sent for the k-th task it handled
ResultsOf(k) ==
    { emit_log[k].rest[j].body :
        j \in { i \in 1..Len(emit_log[k].rest) :
                  emit_log[k].rest[i].queue = "crawler_result" } }

\* C27: every crawl result a worker sends, whatever its status, carries the
\* depth and the seed_domain of the task it reports, so that the master
\* counts it under that depth and that seed domain
C27_ResultCarriesTask ==
    \A k \in 1..Len(emit_log) : \A r \in ResultsOf(k) :
        /\ "depth" \in DOMAIN r
        /\ "seed_domain" \in DOMAIN r
        /\ r.depth = emit_log[k].task.depth
        /\ r.seed_domain = emit_log[k].task.seed_domain
        /\ DOMAIN CountCrawlerResult(crawler_stats, r).by_depth
              = DOMAIN crawler_stats.by_depth \cup {emit_log[k].task.depth}
        /\ DOMAIN CountCrawlerResult(crawler_stats, r).by_domain
              = DOMAIN crawler_stats.by_domain \cup {emit_log[k].task.seed_domain}

----------------------------------------------------------------------------
(* The result the indexer sends for a document *)

\* C28: for every document the indexer took from the queue and processed it
\* sent exactly one result: a success result when the document was persisted,
\* in the index and in the table, and a failure result when it was not
C28_OneResultPerDocument ==
    \A i \in 1..Len(idx_log) :
        LET persisted == idx_log[i].outcomes[Len(idx_log[i].outcomes)] /\ idx_log[i].db_ok
        IN  /\ Len(idx_log[i].results) = 1
            /\ idx_log[i].results[1].status = (IF persisted THEN "success" ELSE "failure")

----------------------------------------------------------------------------
(* What the master's declaration says of the work left *)

\* the work the run still has: tasks on the task queue or in a worker's
\* hands, documents on the index queue or in the indexer's hands
Outstanding ==
    \/ queue["crawler"] # << >>
    \/ \E c \in Crawlers : crawler[c].task # NoTask
    \/ queue["indexer"] # << >>
    \/ idx_task # NoTask

----------------------------------------------------------------------------
(* The crawl results that reach the result queue *)

\* C30: as many crawl results have reached the result queue as tasks have been
\* processed by the workers, one for each, also when two of the tasks had the
\* same URL; no step of this specification takes a result off the queue
C30_ResultPerProcessedTask ==
    Len(queue["crawler_result"]) = Len(fetched)

----------------------------------------------------------------------------
(* The compiled restricted patterns *)

\* C31: the pattern compiled from an entry that is a bare domain matches
\* exactly the http and https URLs whose host is that domain, and no URL of
\* another host that starts with the same characters
C31_BareDomainMatchesHost ==
    (ret # NoTask /\ arg.entry \in Hosts) =>
        (ret.matches <=> (arg.url.scheme \in {<<"http">>, <<"http", "s">>}
                          /\ arg.url.host = arg.entry))

----------------------------------------------------------------------------
(* The keywords of a text *)

\* the place of the first word of the text that is kept and stems to w
FirstPlace(text, w) ==
    CHOOSE i \in 1..Len(text) :
        /\ Kept(text[i]) /\ Stem(text[i]) = w
        /\ \A j \in 1..(i - 1) : ~(Kept(text[j]) /\ Stem(text[j]) = w)

\* C32: extract_keywords returns at most N tokens, in descending order of the
\* frequency of the stemmed token and, for equal frequencies, in the order of
\* first occurrence in the text; no stop word and no token of length <= 2 is
\* among them
C32_Keywords ==
    (ret # NoTask /\ arg.fn = "extract_keywords") =>
        LET kw == ret.keywords
            words == FilteredWords(arg.text)
        IN  /\ Len(kw) <= arg.max_keywords
            /\ \A i \in 1..Len(kw) : Freq(words, kw[i]) >= 1
            /\ \A i, j \in 1..Len(kw) : i < j =>
                  \/ Freq(words, kw[i]) > Freq(words, kw[j])
                  \/ /\ Freq(words, kw[i]) = Freq(words, kw[j])
                     /\ FirstPlace(arg.text, kw[i]) < FirstPlace(arg.text, kw[j])
            /\ \A i \in 1..Len(kw) : kw[i] \notin stop_words /\ Len(kw[i]) > 2

----------------------------------------------------------------------------
(* The child links of one page *)

\* C33: the child tasks a worker sends for one fetched page have http or
\* https URLs, each normalized, and no two of them have the same normalized
\* URL: one send per distinct normalized URL, however often and with whatever
\* fragment or query the page links to it
C33_OneChildPerLink ==
    /\ \A k \in 1..Len(emit_log) :
          /\ \A c \in emit_log[k].children :
                /\ c.url.scheme \in {"http", "https"}
                /\ c.url = Normalize(c.url)
          /\ \A c1, c2 \in emit_log[k].children :
                Normalize(c1.url) = Normalize(c2.url) => c1 = c2
          /\ emit_log[k].sends = Cardinality(emit_log[k].children)
    /\ Expanded =>
          /\ last_expand.extracted =
                { Normalize(l) : l \in { x \in last_expand.links :
                                            x.scheme \in {"http", "https"} } }
          /\ Cardinality(last_expand.sent)
                = Cardinality({ c.url : c \in last_expand.sent })

\* page /b, which links to /a with and without a fragment and to itself with
\* a query, was expanded: one child task for /a and one for /b were sent
C33_Witness ==
    /\ Expanded
    /\ last_expand.parent.url = UrlB
    /\ {UrlA, UrlAfrag, UrlBq, UrlMail} \subseteq last_expand.links
    /\ Cardinality({ c \in last_expand.sent : c.url = UrlA }) = 1
    /\ Cardinality({ c \in last_expand.sent : c.url = UrlB }) = 1
    /\ Cardinality(last_expand.sent) = 3

----------------------------------------------------------------------------
(* The fields a task hands down to its children *)

\* C34: every child task carries the seed_domain, the depth_limit and the
\* restricted_patterns of its parent, so that every task on the queue has the
\* three fields its seed was sent with
C34_FieldsHandedDown ==
    /\ \A k \in 1..Len(emit_log) : \A c \in emit_log[k].children :
          /\ c.seed_domain = emit_log[k].task.seed_domain
          /\ c.depth_limit = emit_log[k].task.depth_limit
          /\ "restricted_patterns" \in DOMAIN c
    /\ \A k \in 1..Len(task_log) :
          /\ task_log[k].body.depth_limit = depth_limit
          /\ task_log[k].body.seed_domain \in { get_domain(u) : u \in Seeded }
          /\ "restricted_patterns" \in DOMAIN task_log[k].body
          /\ task_log[k].body.restricted_patterns
                = prepare_restricted_patterns(restricted_urls)

----------------------------------------------------------------------------
(* The counters of the master *)

\* the sum of the count fields of a by_depth or by_domain table
RECURSIVE SumCounts(_, _)
SumCounts(table, keys) ==
    IF keys = {} THEN 0
    ELSE LET k == CHOOSE x \in keys : TRUE
         IN  table[k].count + SumCounts(table, keys \ {k})

Total(table) == SumCounts(table, DOMAIN table)

\* a table has every key it had, with counts no smaller
TableGrows(old, new) ==
    /\ DOMAIN old \subseteq DOMAIN new
    /\ \A k \in DOMAIN old :
          /\ old[k].count <= new[k].count
          /\ old[k].success <= new[k].success
          /\ old[k].errors <= new[k].errors

\* C35: in every state of the master urls_processed = success + errors +
\* restricted, urls_processed is the sum of the by_depth counts and the sum of
\* the by_domain counts, and no counter ever decreases
C35_CountersAddUp ==
    /\ [](/\ crawler_stats.urls_processed
               = crawler_stats.success + crawler_stats.errors + crawler_stats.restricted
          /\ crawler_stats.urls_processed = Total(crawler_stats.by_depth)
          /\ crawler_stats.urls_processed = Total(crawler_stats.by_domain))
    /\ [][/\ crawler_stats.urls_processed <= crawler_stats'.urls_processed
          /\ crawler_stats.success <= crawler_stats'.success
          /\ crawler_stats.errors <= crawler_stats'.errors
          /\ crawler_stats.restricted <= crawler_stats'.restricted
          /\ TableGrows(crawler_stats.by_depth, crawler_stats'.by_depth)
          /\ TableGrows(crawler_stats.by_domain, crawler_stats'.by_domain)
          /\ indexer_stats.pages_indexed <= indexer_stats'.pages_indexed
          /\ indexer_stats.keywords_indexed <= indexer_stats'.keywords_indexed]_vars

\* the master counted a failed task and a fetched page, under two domains
C35_Witness ==
    /\ crawler_stats.urls_processed = 2
    /\ crawler_stats.errors = 1
    /\ crawler_stats.success = 1
    /\ Cardinality(DOMAIN crawler_stats.by_domain) = 2

----------------------------------------------------------------------------
(* A task between its dequeue and its result *)

WellFormedIn(msgs) == Len(SelectSeq(msgs, LAMBDA m : HasUrl(m.body)))

InHand == Cardinality({ c \in Crawlers : crawler[c].pc = "fetch" })

\* every well-formed message the task queue accepted is on the queue, or in
\* the hands of one worker, or was handed to fetch_page once: a message a
\* worker took is not on the queue while the worker fetches, and never again
TakenOnce == WellFormedIn(task_log) = WellFormedIn(queue["crawler"]) + InHand + Len(fetched)

\* the calls of send_urls_to_crawler_queue that returned, for an entry of
\* emit_log: with no later call made, a raising call is the last child call
ChildrenSent(e) == IF e.raised /\ e.rest = << >> THEN e.sends - 1 ELSE e.sends

\* a worker that stopped in the middle of a task had sent no child task for it
StoppedLeftNothing ==
    \A i \in 1..Len(emit_log) : emit_log[i].raised => ChildrenSent(emit_log[i]) = 0

\* C36: a well-formed task message is deleted when it is dequeued, before the
\* fetch, so no task message is handled twice; and a task whose worker stops
\* between the dequeue and the crawl result leaves no crawl result and no
\* child task
C36_DeletedAtDequeue == TakenOnce /\ StoppedLeftNothing

----------------------------------------------------------------------------
(* API requests *)

\* the type of the result message that answers a request of the given type
ResultTypeFor(type) ==
    IF type = <<ApiPrefix, "search">> THEN "search_results"
    ELSE IF type = <<ApiPrefix, "popular_searches">> THEN "popular_searches"
    ELSE IF type = <<ApiPrefix, "stats">> THEN "indexing_stats"
    ELSE "error"

\* every API request handled so far got the result of its own handler
ApiDispatched ==
    \A i \in 1..Len(api_log) :
        api_log[i].result.type = ResultTypeFor(api_log[i].request.type)

\* every API request handled so far was deleted after its send_result call
ApiAckedAfterSend ==
    \A i \in 1..Len(api_log) : api_log[i].calls = <<"send_message", "delete_message">>

\* C38: every message of the indexing queue whose type starts with 'api_' is
\* handed to the handler of its request (search, popular_searches, stats) and
\* yields exactly one result message of the corresponding type, is deleted
\* after that result is sent, and changes neither the indexed and failed
\* counts nor the store
C38_ApiRequestAnswered ==
    /\ [](ApiDispatched /\ ApiAckedAfterSend)
    /\ [][Len(api_log') > Len(api_log)
             => UNCHANGED <<indexed_count, failed_count, whoosh, db>>]_vars

\* the part of C38 that holds: the order of the calls, the counts and the store
ApiLeavesStore ==
    /\ [](ApiAckedAfterSend)
    /\ [][Len(api_log') > Len(api_log)
             => UNCHANGED <<indexed_count, failed_count, whoosh, db, search_statistics>>]_vars

----------------------------------------------------------------------------
(* The end of a run *)

\* the task queue is empty and the crawl workers and the indexer have left
\* their loops through their idle counters
RunOver ==
    /\ queue["crawler"] = << >>
    /\ \A c \in Crawlers : crawler[c].pc = "exited"
    /\ idx_pc = "exited"

\* C37: on a finite web with a finite depth_limit and no transport errors the
\* run terminates with the task queue empty and then the workers exited
\* through their idle counters: a run of the workers can only come to rest in
\* such a state, so a state where no step is left is one with the task queue
\* empty and every worker exited
C37_RunEndsDrained == RunOver \/ ENABLED NextWorkers
====
